---- MODULE Spec2Model ----
(***************************************************************************)
(* Diagram-to-threat-model analysis pipeline of the threat-modelling PoC   *)
(* (src/container/diagram_threat_integration.py): DiagramThreatAnalyzer    *)
(* and integrate_diagram_with_ai; the rate limiter of the HTTP API         *)
(* (src/container/api.py); the handlers of app_main.py and api.py that     *)
(* call the completion service; a browser session of app_main.py; and      *)
(* sanitize_input of src/container/prompt_protection.py.                   *)
(*                                                                         *)
(* Text is modelled by TLA+ strings, on which Len, SubSeq and \o act as    *)
(* on Python str.  A diagram document is what ET.fromstring makes of the   *)
(* text: either a parse error, or the mxCell nodes in document order, each *)
(* node being its attribute dictionary (a record whose DOMAIN is the set   *)
(* of attributes the node carries).                                        *)
(***************************************************************************)
EXTENDS Integers, Sequences, FiniteSets, TLC

VARIABLES
    analyzer,     \* the DiagramThreatAnalyzer object in use
    parsed,       \* the last parse_diagram_xml call on it, or NoCall: the document,
                  \* the value returned, and the analyzer as it was before the call
    request,      \* the arguments of the last integrate_diagram_with_ai call
                  \* (under SanitizeSpec: of the sanitize_input call)
    result,       \* the dictionary that call returned (the text sanitize_input returned)
    clock,        \* time on the host; every call takes one tick
    earlier,      \* the result of one earlier integrate_diagram_with_ai call
    rate_limit_store,  \* api.py: api key -> timestamps of its accepted requests
    rate_calls,        \* the check_rate_limit calls made: [api_key, now, ret]
    handler,      \* the arguments of the user action (button or endpoint) running
    pc,           \* where that handler stands: idle, primary, secondary, done
    completions,  \* the completion-service invocations of that action
    session_state,     \* app_main.py: st.session_state of one browser session
    uploaded_diagram,  \* the file the diagram uploader widget holds, or NoFile
    sent,         \* the last generate_threat_model call of the diagram tab
    actions,      \* the button presses of the session that reached a generation
    answered      \* api.py: the last endpoint request and the status it got

diagram_vars == <<analyzer, parsed, request, result, earlier>>
rate_vars == <<rate_limit_store, rate_calls>>
handler_vars == <<handler, pc, completions>>
session_vars == <<session_state, uploaded_diagram, sent, actions>>

vars == <<analyzer, parsed, request, result, clock, earlier,
          rate_limit_store, rate_calls, handler, pc, completions,
          session_state, uploaded_diagram, sent, actions, answered>>

NoCall == [none |-> TRUE]

(***************************************************************************)
(* Bounds of the model.                                                    *)
(***************************************************************************)
MaxCells == 2          \* mxCell nodes of a document
MaxReparseCells == 1   \* mxCell nodes of a document parsed by a reused analyzer
MaxClock == 2          \* ticks of the host clock, one per call
MaxTime == 4           \* seconds on the clock that check_rate_limit reads
MaxRateCalls == 5      \* check_rate_limit calls
MaxActions == 2        \* button presses of a session that reach a generation
MaxText == 4           \* characters of a text given to sanitize_input

(***************************************************************************)
(* Python str and list primitives used by the analyzer.                    *)
(***************************************************************************)
UpperCase == "ABCDEFGHIJKLMNOPQRSTUVWXYZ"
LowerCase == "abcdefghijklmnopqrstuvwxyz"

lower_char(c) ==
    IF \E i \in 1..26 : SubSeq(UpperCase, i, i) = c
    THEN LET i == CHOOSE j \in 1..26 : SubSeq(UpperCase, j, j) = c
         IN  SubSeq(LowerCase, i, i)
    ELSE c

RECURSIVE lower(_)
lower(s) ==
    IF Len(s) = 0 THEN ""
    ELSE lower_char(SubSeq(s, 1, 1)) \o lower(SubSeq(s, 2, Len(s)))

is_space(c) == c \in {" ", "\t", "\n", "\r"}

RECURSIVE lstrip(_)
lstrip(s) ==
    IF Len(s) > 0 /\ is_space(SubSeq(s, 1, 1))
    THEN lstrip(SubSeq(s, 2, Len(s)))
    ELSE s

RECURSIVE rstrip(_)
rstrip(s) ==
    IF Len(s) > 0 /\ is_space(SubSeq(s, Len(s), Len(s)))
    THEN rstrip(SubSeq(s, 1, Len(s) - 1))
    ELSE s

strip(s) == rstrip(lstrip(s))

\* Python's  kw in s  on strings: kw occurs in s as a substring.
contains(s, kw) ==
    \E i \in 1..(Len(s) - Len(kw) + 1) : SubSeq(s, i, i + Len(kw) - 1) = kw

\* any(kw in s for kw in keywords)
any_in(keywords, s) ==
    \E k \in 1..Len(keywords) : contains(s, keywords[k])

\* x in list
member(x, list) == \E k \in 1..Len(list) : list[k] = x

\* Element.get(attr, default)
get(cell, attr, default) ==
    IF attr \in DOMAIN cell THEN cell[attr] ELSE default

\* value or fallback  (an empty string is falsy)
or_else(value, fallback) == IF value = "" THEN fallback ELSE value

Digits == "0123456789"

\* str(n) of a non-negative int, as an f-string renders it
RECURSIVE str(_)
str(n) ==
    IF n < 10 THEN SubSeq(Digits, n + 1, n + 1)
    ELSE str(n \div 10) \o SubSeq(Digits, (n % 10) + 1, (n % 10) + 1)

\* sep.join(parts)
RECURSIVE join(_, _)
join(sep, parts) ==
    IF Len(parts) = 0 THEN ""
    ELSE IF Len(parts) = 1 THEN parts[1]
    ELSE parts[1] \o sep \o join(sep, Tail(parts))

(***************************************************************************)
(* Class constants.  A Python dict iterates in insertion order, so each    *)
(* table is the sequence of its (key, keywords) items.                     *)
(***************************************************************************)
ELEMENT_PATTERNS ==
    << [key |-> "process",
        patterns |-> <<"ellipse", "process", "roundRectangle", "service", "api">>],
       [key |-> "data_store",
        patterns |-> <<"cylinder", "database", "storage", "datastore">>],
       [key |-> "external_entity",
        patterns |-> <<"actor", "user", "external", "cloud", "thirdparty">>],
       [key |-> "trust_boundary",
        patterns |-> <<"dashed", "boundary", "dotted", "perimeter">>] >>

\* the tag of the third group named "cloud"
TECH_KEYWORDS_cloud_tag ==
    << [key |-> "aws",
        keywords |-> <<"s3", "ec2", "lambda", "rds", "dynamodb", "api gateway",
                       "cloudfront">>],
       [key |-> "azure",
        keywords |-> <<"blob", "cosmos", "function", "app service", "sql database">>],
       [key |-> "cloud",
        keywords |-> <<"storage", "compute", "cloud function", "cloud sql">>],
       [key |-> "container",
        keywords |-> <<"docker", "kubernetes", "k8s", "container", "pod">>],
       [key |-> "api",
        keywords |-> <<"rest", "graphql", "api", "endpoint", "webhook">>],
       [key |-> "auth",
        keywords |-> <<"oauth", "saml", "jwt", "authentication", "authorization">>],
       [key |-> "database",
        keywords |-> <<"sql", "nosql", "mongodb", "postgresql", "mysql", "redis">>] >>

TECH_KEYWORDS ==
    << [key |-> "aws",
        keywords |-> <<"s3", "ec2", "lambda", "rds", "dynamodb", "api gateway",
                       "cloudfront">>],
       [key |-> "azure",
        keywords |-> <<"blob", "cosmos", "function", "app service", "sql database">>],
       [key |-> "gcp",
        keywords |-> <<"storage", "compute", "cloud function", "cloud sql">>],
       [key |-> "container",
        keywords |-> <<"docker", "kubernetes", "k8s", "container", "pod">>],
       [key |-> "api",
        keywords |-> <<"rest", "graphql", "api", "endpoint", "webhook">>],
       [key |-> "auth",
        keywords |-> <<"oauth", "saml", "jwt", "authentication", "authorization">>],
       [key |-> "database",
        keywords |-> <<"sql", "nosql", "mongodb", "postgresql", "mysql", "redis">>] >>

\* the nosql group placed before the sql group
protocols_nosql_first ==
    << [key |-> "https",         keywords |-> <<"https", "tls", "ssl">>],
       [key |-> "http",          keywords |-> <<"http">>],
       [key |-> "grpc",          keywords |-> <<"grpc">>],
       [key |-> "nosql",         keywords |-> <<"nosql">>],
       [key |-> "sql",           keywords |-> <<"sql">>],
       [key |-> "message_queue", keywords |-> <<"mq", "kafka", "rabbitmq", "queue">>] >>

protocols ==
    << [key |-> "https",         keywords |-> <<"https", "tls", "ssl">>],
       [key |-> "http",          keywords |-> <<"http">>],
       [key |-> "grpc",          keywords |-> <<"grpc">>],
       [key |-> "sql",           keywords |-> <<"sql">>],
       [key |-> "nosql",         keywords |-> <<"nosql">>],
       [key |-> "message_queue", keywords |-> <<"mq", "kafka", "rabbitmq", "queue">>] >>

\* the words of transport encryption alone
encryption_indicators_transport_only == <<"https", "tls", "ssl">>

encryption_indicators == <<"https", "tls", "ssl", "encrypted", "secure">>

(***************************************************************************)
(* The classifier: pure functions of style and label.                      *)
(***************************************************************************)
_determine_element_type(style, value) ==
    LET combined == lower(style \o " " \o value)
        hits == {k \in 1..Len(ELEMENT_PATTERNS) :
                    any_in(ELEMENT_PATTERNS[k].patterns, combined)}
    IN  IF hits # {}
        THEN ELEMENT_PATTERNS[CHOOSE k \in hits : \A j \in hits : k <= j].key
        ELSE "process"

_extract_technologies(value, style) ==
    LET combined == lower(value \o " " \o style)
        hit(k) == any_in(TECH_KEYWORDS[k].keywords, combined)
        F[k \in 0..Len(TECH_KEYWORDS)] ==
            IF k = 0 THEN <<>>
            ELSE IF hit(k) THEN Append(F[k - 1], TECH_KEYWORDS[k].key)
            ELSE F[k - 1]
    IN  F[Len(TECH_KEYWORDS)]

\* the semi-trusted test made before the external_entity test
_determine_trust_level_reordered(element_type, technologies) ==
    IF member("cloud", technologies) \/ contains(element_type, "external")
    THEN "semi-trusted"
    ELSE IF element_type = "external_entity" THEN "untrusted"
    ELSE "trusted"

_determine_trust_level(element_type, technologies) ==
    IF element_type = "external_entity" THEN "untrusted"
    ELSE IF member("cloud", technologies) \/ contains(element_type, "external")
    THEN "semi-trusted"
    ELSE "trusted"

\* the keywords looked for in the style alone
_is_trust_boundary_style_only(style, value) ==
    any_in(ELEMENT_PATTERNS[4].patterns, lower(style))

_is_trust_boundary(style, value) ==
    LET combined == lower(style \o " " \o value)
        patterns == ELEMENT_PATTERNS[4].patterns
    IN  any_in(patterns, combined)

\* the last matching group taken instead of the first
_detect_protocol_last_match(label) ==
    LET label_lower == lower(label)
        hits == {k \in 1..Len(protocols) : any_in(protocols[k].keywords, label_lower)}
    IN  IF hits # {}
        THEN protocols[CHOOSE k \in hits : \A j \in hits : k >= j].key
        ELSE "unknown"

_detect_protocol(label) ==
    LET label_lower == lower(label)
        hits == {k \in 1..Len(protocols) : any_in(protocols[k].keywords, label_lower)}
    IN  IF hits # {}
        THEN protocols[CHOOSE k \in hits : \A j \in hits : k <= j].key
        ELSE "unknown"

\* an edge without label taken as encrypted
_detect_encryption_unlabeled(label) ==
    label = "" \/ any_in(encryption_indicators, lower(label))

_detect_encryption(label) ==
    LET label_lower == lower(label)
    IN  any_in(encryption_indicators, label_lower)

(***************************************************************************)
(* The analyzer object and the parser.                                     *)
(***************************************************************************)
\* DiagramThreatAnalyzer.__init__
DiagramThreatAnalyzer ==
    [elements |-> <<>>, data_flows |-> <<>>, trust_boundaries |-> <<>>]

ThreatModelElement(id, name, element_type, trust_level, technologies) ==
    [id |-> id, name |-> name, element_type |-> element_type,
     trust_level |-> trust_level, description |-> "",
     technologies |-> technologies]

DataFlow(id, source_id, target_id, label, protocol, encrypted) ==
    [id |-> id, source_id |-> source_id, target_id |-> target_id,
     label |-> label, protocol |-> protocol,
     data_classification |-> "unknown", encrypted |-> encrypted]

_process_element(cell, value, style) ==
    LET cell_id == cell.id
        element_type == _determine_element_type(style, value)
        technologies == _extract_technologies(value, style)
        trust_level == _determine_trust_level(element_type, technologies)
    IN  ThreatModelElement(cell_id,
                           or_else(value, element_type \o "_" \o cell_id),
                           element_type, trust_level, technologies)

\* the flow built with id=cell.get('source')
_process_data_flow_source_as_id(cell, label) ==
    DataFlow(get(cell, "source", ""),
             get(cell, "source", ""),
             get(cell, "target", ""),
             label,
             _detect_protocol(label),
             _detect_encryption(label))

\* The DataFlow that _process_data_flow builds and appends to self.data_flows.
_process_data_flow(cell, label) ==
    DataFlow(cell.id,
             get(cell, "source", ""),
             get(cell, "target", ""),
             label,
             _detect_protocol(label),
             _detect_encryption(label))

\* the layer nodes '0' and '1' not skipped
skipped_without_id(cell) ==
    "id" \notin DOMAIN cell \/ cell.id = ""

\* not cell_id or cell_id in ['0', '1']
skipped(cell) ==
    \/ "id" \notin DOMAIN cell
    \/ cell.id = ""
    \/ cell.id \in {"0", "1"}

\* cell.get('edge') == '1'
is_edge(cell) == "edge" \in DOMAIN cell /\ cell.edge = "1"

\* the trust-boundary test made before the edge test
cell_outcome_boundary_first(cell) ==
    IF skipped(cell) THEN [branch |-> "continue"]
    ELSE LET cell_id == cell.id
             value == strip(get(cell, "value", ""))
             style == lower(get(cell, "style", ""))
         IN  IF _is_trust_boundary(style, value)
             THEN [branch |-> "trust_boundary",
                   item |-> or_else(value, "Boundary_" \o cell_id)]
             ELSE IF is_edge(cell)
             THEN [branch |-> "data_flow",
                   item |-> _process_data_flow(cell, value)]
             ELSE [branch |-> "element",
                   item |-> _process_element(cell, value, style)]

\* The branch the second pass takes for one node, and the item it appends.
cell_outcome(cell) ==
    IF skipped(cell) THEN [branch |-> "continue"]
    ELSE LET cell_id == cell.id
             value == strip(get(cell, "value", ""))
             style == lower(get(cell, "style", ""))
         IN  IF is_edge(cell)
             THEN [branch |-> "data_flow",
                   item |-> _process_data_flow(cell, value)]
             ELSE IF _is_trust_boundary(style, value)
             THEN [branch |-> "trust_boundary",
                   item |-> or_else(value, "Boundary_" \o cell_id)]
             ELSE [branch |-> "element",
                   item |-> _process_element(cell, value, style)]

(***************************************************************************)
(* Diagram documents given to the program.  Cells are the mxCell nodes the *)
(* documents are made of: the two layer nodes, nodes without id, vertices  *)
(* of each category (two of them sharing id "2"), trust boundaries by      *)
(* style and by label, an unlabeled edge, and an edge that names itself as *)
(* its source and carries a trust-boundary style.                          *)
(***************************************************************************)
Cells ==
    { [id |-> "0"],
      [id |-> "1", value |-> "Layer", parent |-> "0"],
      [value |-> "note", style |-> "text"],
      [id |-> "", value |-> "User"],
      [id |-> "2", value |-> "Web App", style |-> "ellipse", vertex |-> "1"],
      [id |-> "3", value |-> "Database", style |-> "shape=cylinder"],
      [id |-> "5", value |-> " OAuth User ", style |-> "shape=Actor"],
      [id |-> "2", value |-> "", style |-> "rounded=0"],
      [id |-> "6", value |-> "", style |-> "Dashed=1"],
      [id |-> "7", value |-> "DMZ Perimeter"],
      [id |-> "4", edge |-> "1", source |-> "2", target |-> "3"],
      [id |-> "8", value |-> "HTTPS", style |-> "dashed=1", edge |-> "1",
       source |-> "8", target |-> "3"] }

(***************************************************************************)
(* Longer documents: the example of the module's __main__ block, documents *)
(* with five and six edges, edges whose endpoints name no element, and one *)
(* node or one edge for each keyword group of the classifier.              *)
(***************************************************************************)
\* The mxCell nodes of example_xml, in document order.
example_cells ==
    << [id |-> "0"],
       [id |-> "1", parent |-> "0"],
       [id |-> "2", value |-> "Web App", style |-> "ellipse", vertex |-> "1",
        parent |-> "1"],
       [id |-> "3", value |-> "Database", style |-> "cylinder", vertex |-> "1",
        parent |-> "1"],
       [id |-> "4", value |-> "", edge |-> "1", source |-> "2", target |-> "3",
        parent |-> "1"] >>

\* The same diagram as a draw.io export writes it: longer styles, the edge
\* before the vertices, no layer nodes.
example_cells_exported ==
    << [id |-> "c", value |-> "", style |-> "endArrow=classic;html=1;",
        edge |-> "1", source |-> "a", target |-> "b", parent |-> "1"],
       [id |-> "a", value |-> "Web App",
        style |-> "ellipse;whiteSpace=wrap;html=1;", vertex |-> "1", parent |-> "1"],
       [id |-> "b", value |-> "Database",
        style |-> "shape=cylinder3;whiteSpace=wrap;html=1;", vertex |-> "1",
        parent |-> "1"] >>

\* n edges from node "2" to node "3", all with the same label
edges_between(n, label) ==
    [k \in 1..n |-> [id |-> "e" \o str(k), value |-> label, edge |-> "1",
                     source |-> "2", target |-> "3"]]

FlowCounts == {5, 6}

\* Documents with five or six edges, unencrypted or encrypted, alone or
\* together with the two vertices of the example.
ManyFlowCells ==
    {edges_between(n, label) : n \in FlowCounts, label \in {"", "TLS"}}
    \cup {SubSeq(example_cells, 3, 4) \o edges_between(n, "TLS") : n \in FlowCounts}

\* Edges whose source or target is no element: an id no node carries, no
\* source and target attribute at all, the id of a trust-boundary node.
DanglingCells ==
    { << [id |-> "A", value |-> "A", vertex |-> "1"],
         [id |-> "e", edge |-> "1", source |-> "A", target |-> "ZZZ"] >>,
      << [id |-> "A", value |-> "A", vertex |-> "1"],
         [id |-> "e", value |-> "sync", edge |-> "1"] >>,
      << [id |-> "A", value |-> "A", vertex |-> "1"],
         [id |-> "7", value |-> "DMZ Perimeter"],
         [id |-> "e", edge |-> "1", source |-> "7", target |-> "A"] >> }

\* Vertices whose style and label hold keywords of one or several groups.
ClassifierCells ==
    { [id |-> "10", value |-> "Storage", style |-> "shape=roundRectangle"],
      [id |-> "10", value |-> "Cloud", style |-> "roundRectangle;"],
      [id |-> "10", value |-> "Queue", style |-> "roundRectangle"],
      [id |-> "11", value |-> "Storage API"],
      [id |-> "11", value |-> "Database Service"],
      [id |-> "11", value |-> "User Process"],
      [id |-> "12", value |-> "User Database"],
      [id |-> "12", value |-> "External DataStore"],
      [id |-> "13", value |-> "ThirdParty Cloud"],
      [id |-> "13", value |-> "Worker", style |-> "rounded=1"] }

\* Edges whose label holds keywords of one or several protocol groups.
LabelledEdges ==
    {[id |-> "20", value |-> label, edge |-> "1", source |-> "2", target |-> "3"] :
        label \in {"HTTP", "Kafka over TLS", "gRPC call", "NoSQL query",
                   "SQL over SSL", "RabbitMQ", "job queue", "encrypted sync",
                   "reads"}}

\* Edges that differ in style, endpoints or protocol but not in label, and
\* edges that carry an encryption word in the style or as an endpoint only.
EncryptionEdges ==
    { [id |-> "30", value |-> "Secure HTTP", edge |-> "1", source |-> "2",
       target |-> "3"],
      [id |-> "30", value |-> "Secure HTTP", style |-> "dashed=1;endArrow=none",
       edge |-> "1", source |-> "3", target |-> "tls"],
      [id |-> "31", value |-> " sEcUrEd ", edge |-> "1"],
      [id |-> "31", value |-> "data", style |-> "tls=1;encrypted=1", edge |-> "1",
       source |-> "https", target |-> "ssl"],
      [id |-> "32", value |-> "http s", style |-> "secure", edge |-> "1",
       source |-> "2", target |-> "3"] }

\* Several external entities, data stores, flows and trust boundaries, none
\* of them in the order of their names or ids, and a second document with
\* the nodes of the first in reverse order.
hint_cells ==
    << [id |-> "n9", value |-> "Zoe (user)", vertex |-> "1"],
       [id |-> "b2", value |-> "Prod boundary", vertex |-> "1"],
       [id |-> "n3", value |-> "Orders database", vertex |-> "1"],
       [id |-> "f2", value |-> "reads", edge |-> "1", source |-> "n9", target |-> "n3"],
       [id |-> "n7", value |-> "Adam (actor)", vertex |-> "1"],
       [id |-> "b1", value |-> "DMZ perimeter", vertex |-> "1"],
       [id |-> "f1", value |-> "TLS", edge |-> "1", source |-> "n7", target |-> "n3"],
       [id |-> "n1", value |-> "Audit storage", vertex |-> "1"],
       [id |-> "f3", value |-> "", edge |-> "1", source |-> "n3", target |-> "n1"],
       [id |-> "b3", value |-> "Admin boundary", vertex |-> "1"],
       [id |-> "n5", value |-> "Mike (external)", vertex |-> "1"] >>

\* Elements with a self-loop, with flows in both directions, with a flow
\* from an id no node carries, and an element without any flow.
connection_cells ==
    << [id |-> "a", value |-> "Gateway", vertex |-> "1"],
       [id |-> "b", value |-> "Ledger", vertex |-> "1"],
       [id |-> "c", value |-> "Printer", vertex |-> "1"],
       [id |-> "l1", edge |-> "1", source |-> "a", target |-> "a"],
       [id |-> "l2", edge |-> "1", source |-> "a", target |-> "b"],
       [id |-> "l3", edge |-> "1", source |-> "b", target |-> "a"],
       [id |-> "l4", edge |-> "1", source |-> "x", target |-> "b"],
       [id |-> "l5", edge |-> "1", source |-> "b", target |-> "y"] >>

\* Vertices that name a cloud platform in label or style, alone, next to
\* another trusted element, and next to an external entity.
cloud_storage == [id |-> "40", value |-> "Cloud Storage", style |-> "shape=cloud"]

CloudCells ==
    { << cloud_storage >>,
      << [id |-> "41", value |-> "Cloud Function API"] >>,
      << [id |-> "42", value |-> "Cloud SQL database", style |-> "external=0"] >>,
      << cloud_storage, [id |-> "43", value |-> "Worker"] >>,
      << cloud_storage, [id |-> "44", value |-> "Cloud"] >>,
      << [id |-> "44", value |-> "Cloud"], [id |-> "45", value |-> "Partner (external)"] >> }

\* One edge for every protocol group, and edges that name NoSQL.
protocol_labels ==
    << "HTTPS", "HTTP", "gRPC", "SQL", "NoSQL", "Kafka", "", "nosql store",
       "NoSQL via gRPC", "NOSQL queue", "MongoDB" >>

protocol_cells ==
    [k \in 1..Len(protocol_labels) |->
        [id |-> "p" \o str(k), value |-> protocol_labels[k], edge |-> "1",
         source |-> "2", target |-> "3"]]

HintCells ==
    {hint_cells,
     [k \in 1..Len(hint_cells) |-> hint_cells[Len(hint_cells) + 1 - k]]}

ScenarioDocs ==
    {[well_formed |-> TRUE, cells |-> cs] :
        cs \in {example_cells, example_cells_exported} \cup ManyFlowCells \cup DanglingCells
               \cup HintCells \cup {connection_cells, protocol_cells} \cup CloudCells
               \cup {<<c>> : c \in ClassifierCells \cup LabelledEdges \cup EncryptionEdges}}

\* every node of every document
AllCells ==
    Cells \cup UNION {{d.cells[k] : k \in 1..Len(d.cells)} : d \in ScenarioDocs}

\* cell_outcome of every node, computed once.
outcome == [cell \in AllCells |-> cell_outcome(cell)]

\* every item put at the front of its list
process_cell_prepending(self, cell) ==
    LET o == outcome[cell]
    IN  CASE o.branch = "continue" -> self
          [] o.branch = "data_flow" ->
                [self EXCEPT !.data_flows = << o.item >> \o @]
          [] o.branch = "trust_boundary" ->
                [self EXCEPT !.trust_boundaries = << o.item >> \o @]
          [] o.branch = "element" ->
                [self EXCEPT !.elements = << o.item >> \o @]

\* One iteration of the second pass over root.iter('mxCell'); returns self.
\* (The first pass only fills the local cells_by_id, which nothing reads.)
process_cell(self, cell) ==
    LET o == outcome[cell]
    IN  CASE o.branch = "continue" -> self
          [] o.branch = "data_flow" ->
                [self EXCEPT !.data_flows = Append(@, o.item)]
          [] o.branch = "trust_boundary" ->
                [self EXCEPT !.trust_boundaries = Append(@, o.item)]
          [] o.branch = "element" ->
                [self EXCEPT !.elements = Append(@, o.item)]

RECURSIVE second_pass(_, _)
second_pass(self, cells) ==
    IF cells = <<>> THEN self
    ELSE second_pass(process_cell(self, Head(cells)), Tail(cells))

\* the list left as it is
not_cleared(list) == list

\* list.clear()
clear(list) == <<>>

\* "Clear previous data": the three clear() calls
clear_previous(self) ==
    [elements |-> clear(self.elements),
     data_flows |-> clear(self.data_flows),
     trust_boundaries |-> clear(self.trust_boundaries)]

\* a parse that found no element reported as a failure
parse_diagram_xml_rejecting_empty(self, xml_content) ==
    IF ~xml_content.well_formed
    THEN [ret |-> FALSE, self |-> self]
    ELSE LET after == second_pass(clear_previous(self), xml_content.cells)
         IN  [ret |-> after.elements # <<>>, self |-> after]

\* parse_diagram_xml: the value returned and the analyzer afterwards.
\* ET.fromstring raises on text that is not well-formed, before anything is
\* cleared; the except clause reports the error and returns False.
parse_diagram_xml(self, xml_content) ==
    IF ~xml_content.well_formed
    THEN [ret |-> FALSE, self |-> self]
    ELSE [ret |-> TRUE,
          self |-> second_pass(clear_previous(self), xml_content.cells)]

CellSeqs == UNION {[1..n -> Cells] : n \in 0..MaxCells}

WellFormedDocs == {[well_formed |-> TRUE, cells |-> cs] : cs \in CellSeqs}

\* example_xml as __main__ writes it: the literal opens with a line break and
\* four blanks, so the XML declaration is not at the start of the text and
\* ET.fromstring raises ParseError.
example_xml == [well_formed |-> FALSE, cells |-> example_cells]

\* Text that ET.fromstring rejects; no node of it is ever seen.
MalformedDocs == {[well_formed |-> FALSE, cells |-> <<>>], example_xml}

Docs == WellFormedDocs \cup MalformedDocs \cup ScenarioDocs

(***************************************************************************)
(* The prompt composer and the risk hint generator.                        *)
(***************************************************************************)
\* The two-character stand-in for the non-ASCII arrow literal of line 276.
ARROW == "->"

\* The parts a loop appends: the lists of parts of its iterations, in order.
RECURSIVE appended(_)
appended(lists) ==
    IF lists = <<>> THEN <<>>
    ELSE Head(lists) \o appended(Tail(lists))

\* the id itself returned when no element carries it
_get_element_name_or_id(self, element_id) ==
    LET hits == {k \in 1..Len(self.elements) : self.elements[k].id = element_id}
    IN  IF hits # {}
        THEN self.elements[CHOOSE k \in hits : \A j \in hits : k <= j].name
        ELSE element_id

\* for element in self.elements: return element.name on the first id match
_get_element_name(self, element_id) ==
    LET hits == {k \in 1..Len(self.elements) : self.elements[k].id = element_id}
    IN  IF hits # {}
        THEN self.elements[CHOOSE k \in hits : \A j \in hits : k <= j].name
        ELSE "Unknown_" \o element_id

\* the overview with the time of the call put into it
system_overview_stamped(self) ==
    << "# System Architecture Overview",
       "Generated at " \o str(clock),
       "The system consists of " \o str(Len(self.elements)) \o " components ",
       "with " \o str(Len(self.data_flows)) \o " data flows between them.\n" >>

\* "System overview": the first three parts of the prompt
system_overview(self) ==
    << "# System Architecture Overview",
       "The system consists of " \o str(Len(self.elements)) \o " components ",
       "with " \o str(Len(self.data_flows)) \o " data flows between them.\n" >>

\* the flows that leave the element taken for those that reach it
inbound_by_source(self, element) ==
    SelectSeq(self.data_flows, LAMBDA f : f.source_id = element.id)

\* [f for f in self.data_flows if f.target_id == element.id]
inbound(self, element) ==
    SelectSeq(self.data_flows, LAMBDA f : f.target_id = element.id)

\* [f for f in self.data_flows if f.source_id == element.id]
outbound(self, element) ==
    SelectSeq(self.data_flows, LAMBDA f : f.source_id = element.id)

generate_system_prompt(self) ==
    LET boundary_line(boundary) == << "- " \o boundary >>
        boundaries ==
            IF self.trust_boundaries # <<>>
            THEN << "## Trust Boundaries" >>
                 \o appended([k \in 1..Len(self.trust_boundaries) |->
                                  boundary_line(self.trust_boundaries[k])])
                 \o << "" >>
            ELSE <<>>
        element_lines(element) ==
            << "### " \o element.name,
               "- Type: " \o element.element_type,
               "- Trust Level: " \o element.trust_level >>
            \o (IF element.technologies # <<>>
                THEN << "- Technologies: " \o join(", ", element.technologies) >>
                ELSE <<>>)
            \o (IF inbound(self, element) # <<>>
                THEN << "- Inbound connections: "
                        \o str(Len(inbound(self, element))) >>
                ELSE <<>>)
            \o (IF outbound(self, element) # <<>>
                THEN << "- Outbound connections: "
                        \o str(Len(outbound(self, element))) >>
                ELSE <<>>)
            \o << "" >>
        flow_line(flow) ==
            LET source == _get_element_name(self, flow.source_id)
                target == _get_element_name(self, flow.target_id)
            IN  << "- " \o source \o " " \o ARROW \o " " \o target
                   \o (IF flow.label # "" THEN ": " \o flow.label ELSE "")
                   \o (IF flow.protocol # "unknown"
                       THEN " (" \o flow.protocol \o ")" ELSE "")
                   \o (IF flow.encrypted THEN " [Encrypted]" ELSE "") >>
        prompt_parts ==
            system_overview(self)
            \o boundaries
            \o << "## System Components\n" >>
            \o appended([k \in 1..Len(self.elements) |-> element_lines(self.elements[k])])
            \o << "## Data Flows\n" >>
            \o appended([k \in 1..Len(self.data_flows) |-> flow_line(self.data_flows[k])])
    IN  join("\n", prompt_parts)

\* A Python dict is modelled by the sequence of its items in insertion order.
item(key, value) == [key |-> key, value |-> value]

\* the names in reverse order
element_names_reversed(list) ==
    [k \in 1..Len(list) |-> list[Len(list) + 1 - k].name]

\* [e.name for e in list]
element_names(list) == [k \in 1..Len(list) |-> list[k].name]

\* the flow count at which the Denial of Service rule already fires set to 5
many_flows_from_five(self) == Len(self.data_flows) >= 5

\* "Analyze for DoS": len(self.data_flows) > 5
many_flows(self) == Len(self.data_flows) > 5

get_stride_analysis_hints(self) ==
    LET external_entities ==
            SelectSeq(self.elements, LAMBDA e : e.element_type = "external_entity")
        unencrypted_flows == SelectSeq(self.data_flows, LAMBDA f : ~f.encrypted)
        data_stores ==
            SelectSeq(self.elements, LAMBDA e : e.element_type = "data_store")
        trust_levels == {self.elements[k].trust_level : k \in 1..Len(self.elements)}
        hints ==
            << item("Spoofing",
                    IF external_entities # <<>>
                    THEN << "External entities detected: "
                            \o join(", ", element_names(external_entities))
                            \o ". Consider authentication mechanisms." >>
                    ELSE <<>>),
               item("Tampering",
                    IF unencrypted_flows # <<>>
                    THEN << str(Len(unencrypted_flows))
                            \o " unencrypted data flows detected. "
                            \o "Consider implementing encryption." >>
                    ELSE <<>>),
               item("Repudiation", <<>>),
               item("Information Disclosure",
                    IF data_stores # <<>>
                    THEN << str(Len(data_stores)) \o " data stores found. "
                            \o "Ensure proper access controls and encryption at rest." >>
                    ELSE <<>>),
               item("Denial of Service",
                    IF many_flows(self)
                    THEN << "Multiple data flows detected. "
                            \o "Consider rate limiting and input validation." >>
                    ELSE <<>>),
               item("Elevation of Privilege",
                    IF Cardinality(trust_levels) > 1
                    THEN << "Multiple trust levels detected. "
                            \o "Ensure proper boundary enforcement." >>
                    ELSE <<>>) >>
    IN  SelectSeq(hints, LAMBDA kv : kv.value # <<>>)

\* counts[element.element_type] = counts.get(element.element_type, 0) + 1
_count_element_types(self) ==
    LET type_of(k) == self.elements[k].element_type
        first == {k \in 1..Len(self.elements) :
                     \A j \in 1..(k - 1) : type_of(j) # type_of(k)}
        F[k \in 0..Len(self.elements)] ==
            IF k = 0 THEN <<>>
            ELSE IF k \in first
            THEN Append(F[k - 1],
                        item(type_of(k),
                             Cardinality({j \in 1..Len(self.elements) :
                                             type_of(j) = type_of(k)})))
            ELSE F[k - 1]
    IN  F[Len(self.elements)]

\* The dictionary export_to_json serialises (json.dumps renders it as text).
export_to_json(self) ==
    [elements |-> self.elements,
     data_flows |-> self.data_flows,
     trust_boundaries |-> self.trust_boundaries,
     statistics |-> [total_elements |-> Len(self.elements),
                     total_flows |-> Len(self.data_flows),
                     element_types |-> _count_element_types(self)]]

\* analyzer = DiagramThreatAnalyzer(); analyzer.parse_diagram_xml(diagram_xml)
fresh_parse(diagram_xml) == parse_diagram_xml(DiagramThreatAnalyzer, diagram_xml)

\* the framework name compared without regard to case
is_stride_any_case(framework) == lower(framework) = "stride"

\* framework == "STRIDE"
is_stride(framework) == framework = "STRIDE"

\* the names put out in reverse order
compliance_section_reversed(compliance_requirements) ==
    IF compliance_requirements # <<>>
    THEN << "\n## Compliance Requirements" >>
         \o [k \in 1..Len(compliance_requirements) |->
                "- " \o compliance_requirements[Len(compliance_requirements) + 1 - k]]
    ELSE <<>>

\* The parts appended for the compliance list (None and [] are both falsy and
\* are both modelled by the empty list).
compliance_section(compliance_requirements) ==
    IF compliance_requirements # <<>>
    THEN << "\n## Compliance Requirements" >>
         \o [k \in 1..Len(compliance_requirements) |->
                "- " \o compliance_requirements[k]]
    ELSE <<>>

\* The parts appended for the hints of the framework.
risk_indicators(stride_hints) ==
    LET hint_line(hint) == << "- " \o hint >>
        category_lines(kv) ==
            << "\n### " \o kv.key >>
            \o appended([k \in 1..Len(kv.value) |-> hint_line(kv.value[k])])
    IN  IF stride_hints # <<>>
        THEN << "\n## Initial Risk Indicators" >>
             \o appended([k \in 1..Len(stride_hints) |->
                              category_lines(stride_hints[k])])
        ELSE <<>>

\* integrate_diagram_with_ai; args is the record of the arguments the caller
\* passes, the ones left out taking their default.
integrate_diagram_with_ai(args) ==
    LET diagram_xml == args.diagram_xml
        framework == get(args, "framework", "STRIDE")
        compliance_requirements == get(args, "compliance_requirements", <<>>)
        p == fresh_parse(diagram_xml)
        a == p.self
        system_description == generate_system_prompt(a)
        stride_hints ==
            IF is_stride(framework) THEN get_stride_analysis_hints(a) ELSE <<>>
        ai_prompt_parts ==
            << system_description >>
            \o compliance_section(compliance_requirements)
            \o risk_indicators(stride_hints)
    IN  IF ~p.ret
        THEN [success |-> FALSE, error |-> "Failed to parse diagram"]
        ELSE [success |-> TRUE,
              system_description |-> system_description,
              ai_prompt |-> join("\n", ai_prompt_parts),
              analysis_hints |-> stride_hints,
              diagram_json |-> export_to_json(a),
              statistics |-> [elements |-> Len(a.elements),
                              flows |-> Len(a.data_flows),
                              boundaries |-> Len(a.trust_boundaries)]]

(***************************************************************************)
(* Calls of integrate_diagram_with_ai.                                     *)
(***************************************************************************)
Frameworks == {"STRIDE", "PASTA", "LINDDUN", "VAST", "stride"}

ComplianceLists == { <<>>, <<"Essential Eight", "GDPR">> }

\* The argument lists a caller can pass: the document alone, the document
\* and a framework, or all three.
Requests ==
    {[diagram_xml |-> d] : d \in Docs}
    \cup {[diagram_xml |-> d, framework |-> f] : d \in Docs, f \in Frameworks}
    \cup {[diagram_xml |-> d, framework |-> f, compliance_requirements |-> c] :
             d \in Docs, f \in Frameworks, c \in ComplianceLists}

\* api.py as loaded: rate_limit_store = defaultdict(list), no request served.
RateIdle ==
    /\ rate_limit_store = [k \in {} |-> <<>>]
    /\ rate_calls = <<>>

\* No button pressed and no endpoint called.
HandlerIdle ==
    /\ handler = NoCall
    /\ pc = "idle"
    /\ completions = <<>>

\* app_main.py as a new session finds it: st.session_state is empty and the
\* uploader holds no file.
NoFile == [none |-> TRUE]

SessionIdle ==
    /\ session_state = [k \in {} |-> <<>>]
    /\ uploaded_diagram = NoFile
    /\ sent = NoCall
    /\ actions = 0

\* No endpoint called.
EndpointIdle == answered = NoCall

\* The caller has its request ready; nothing has run.
Init ==
    /\ analyzer = DiagramThreatAnalyzer
    /\ parsed = NoCall
    /\ request \in Requests
    /\ result = NoCall
    /\ clock = 0
    /\ earlier = NoCall
    /\ RateIdle
    /\ HandlerIdle
    /\ SessionIdle
    /\ EndpointIdle

\* The caller runs (or runs again) integrate_diagram_with_ai on its request.
\* analyzer is the analyzer object the call creates, as the call leaves it.
Integrate ==
    LET p == fresh_parse(request.diagram_xml)
    IN  /\ clock < MaxClock
        /\ clock' = clock + 1
        /\ analyzer' = p.self
        /\ parsed' = [doc |-> request.diagram_xml, ret |-> p.ret,
                      before |-> DiagramThreatAnalyzer]
        /\ result' = integrate_diagram_with_ai(request)
        /\ earlier' = result
        /\ UNCHANGED <<request, rate_vars, handler_vars, session_vars, answered>>

Next == Integrate

Spec == Init /\ [][Next]_vars

(***************************************************************************)
(* A caller keeps one analyzer and parses one document after another.      *)
(***************************************************************************)
ParseInit ==
    /\ analyzer = DiagramThreatAnalyzer
    /\ parsed = NoCall
    /\ request = NoCall
    /\ result = NoCall
    /\ clock = 0
    /\ earlier = NoCall
    /\ RateIdle
    /\ HandlerIdle
    /\ SessionIdle
    /\ EndpointIdle

Parse(doc) ==
    LET r == parse_diagram_xml(analyzer, doc)
    IN  /\ analyzer' = r.self
        /\ parsed' = [doc |-> doc, ret |-> r.ret, before |-> analyzer]
        /\ UNCHANGED <<request, result, clock, earlier, rate_vars, handler_vars,
                       session_vars, answered>>

ReparseDocs == {doc \in Docs : Len(doc.cells) <= MaxReparseCells}

ParseNext == \E doc \in ReparseDocs : Parse(doc)

ParseSpec == ParseInit /\ [][ParseNext]_vars

(***************************************************************************)
(* api.py: the in-memory rate limiter.  time() is read once per call; the  *)
(* clock is modelled in whole seconds and never runs backwards.            *)
(***************************************************************************)
RATE_LIMIT_REQUESTS == 2
RATE_LIMIT_WINDOW == 3

\* token_data.get("api_key", "default")
ApiKeys == {"default", "key-1"}

\* rate_limit_store[api_key] read: a defaultdict gives [] for a new key
stored(store, api_key) ==
    IF api_key \in DOMAIN store THEN store[api_key] ELSE <<>>

\* rate_limit_store[api_key] = value
assigned(store, api_key, value) ==
    [k \in DOMAIN store \cup {api_key} |->
        IF k = api_key THEN value ELSE store[k]]

\* now - timestamp < RATE_LIMIT_WINDOW
young(now, timestamp) == now - timestamp < RATE_LIMIT_WINDOW

\* the limit taken as reached only beyond RATE_LIMIT_REQUESTS entries
limit_exceeded(timestamps) == Len(timestamps) > RATE_LIMIT_REQUESTS

\* len(rate_limit_store[api_key]) >= RATE_LIMIT_REQUESTS
limit_reached(timestamps) == Len(timestamps) >= RATE_LIMIT_REQUESTS

\* check_rate_limit at time now: the value returned and the store afterwards
check_rate_limit(store, api_key, now) ==
    LET cleaned == SelectSeq(stored(store, api_key), LAMBDA t : young(now, t))
    IN  IF limit_reached(cleaned)
        THEN [ret |-> FALSE, store |-> assigned(store, api_key, cleaned)]
        ELSE [ret |-> TRUE,
              store |-> assigned(store, api_key, Append(cleaned, now))]

RateInit ==
    /\ analyzer = DiagramThreatAnalyzer
    /\ parsed = NoCall
    /\ request = NoCall
    /\ result = NoCall
    /\ clock = 0
    /\ earlier = NoCall
    /\ RateIdle
    /\ HandlerIdle
    /\ SessionIdle
    /\ EndpointIdle

\* An endpoint calls check_rate_limit for the key of its token.
CheckRateLimit(api_key) ==
    LET r == check_rate_limit(rate_limit_store, api_key, clock)
    IN  /\ Len(rate_calls) < MaxRateCalls
        /\ rate_limit_store' = r.store
        /\ rate_calls' = Append(rate_calls,
                                [api_key |-> api_key, now |-> clock, ret |-> r.ret])
        /\ UNCHANGED <<diagram_vars, clock, handler_vars, session_vars, answered>>

\* A second passes between two calls.
TimePasses ==
    /\ clock < MaxTime
    /\ clock' = clock + 1
    /\ UNCHANGED <<diagram_vars, rate_vars, handler_vars, session_vars, answered>>

RateNext ==
    \/ \E api_key \in ApiKeys : CheckRateLimit(api_key)
    \/ TimePasses

RateSpec == RateInit /\ [][RateNext]_vars

(***************************************************************************)
(* api.py: the endpoints up to their rate-limit test.  Each reads the key  *)
(* of the caller's token and answers 429 when check_rate_limit refuses;    *)
(* compare_threat_models calls it twice in one condition.                  *)
(***************************************************************************)
Endpoints == {"create_threat_model", "create_threat_model_with_files",
              "compare_threat_models"}

\* the entry of rate_calls for one check_rate_limit call
rate_call(api_key, now, ret) == [api_key |-> api_key, now |-> now, ret |-> ret]

\* if not check_rate_limit(api_key): raise HTTPException(status_code=429)
\* The status ("passed" when the handler goes on), the store afterwards and
\* the check_rate_limit calls made.
rate_limited_once(store, api_key, now) ==
    LET r == check_rate_limit(store, api_key, now)
    IN  [status |-> IF r.ret THEN "passed" ELSE "429",
         store |-> r.store,
         checks |-> << rate_call(api_key, now, r.ret) >>]

\* if not check_rate_limit(api_key) or not check_rate_limit(api_key): raise ...
\* The second call is made only when the first returned True.
rate_limited_twice(store, api_key, now) ==
    LET first == check_rate_limit(store, api_key, now)
        second == check_rate_limit(first.store, api_key, now)
    IN  IF ~first.ret
        THEN [status |-> "429", store |-> first.store,
              checks |-> << rate_call(api_key, now, FALSE) >>]
        ELSE [status |-> IF second.ret THEN "passed" ELSE "429",
              store |-> second.store,
              checks |-> << rate_call(api_key, now, TRUE),
                            rate_call(api_key, now, second.ret) >>]

rate_limited(endpoint, store, api_key, now) ==
    IF endpoint = "compare_threat_models"
    THEN rate_limited_twice(store, api_key, now)
    ELSE rate_limited_once(store, api_key, now)

EndpointInit ==
    /\ analyzer = DiagramThreatAnalyzer
    /\ parsed = NoCall
    /\ request = NoCall
    /\ result = NoCall
    /\ clock = 0
    /\ earlier = NoCall
    /\ RateIdle
    /\ HandlerIdle
    /\ SessionIdle
    /\ EndpointIdle

\* A client calls an endpoint with a token of the key.
Request(endpoint, api_key) ==
    LET r == rate_limited(endpoint, rate_limit_store, api_key, clock)
    IN  /\ Len(rate_calls) < MaxRateCalls
        /\ rate_limit_store' = r.store
        /\ rate_calls' = rate_calls \o r.checks
        /\ answered' = [endpoint |-> endpoint, api_key |-> api_key,
                        status |-> r.status,
                        before |-> stored(rate_limit_store, api_key)]
        /\ UNCHANGED <<diagram_vars, clock, handler_vars, session_vars>>

EndpointNext ==
    \/ \E endpoint \in Endpoints, api_key \in ApiKeys : Request(endpoint, api_key)
    \/ TimePasses

EndpointSpec == EndpointInit /\ [][EndpointNext]_vars

(***************************************************************************)
(* prompt_protection.py: sanitize_input.  A text is the sequence of its    *)
(* code points, so that the null character and the control characters can  *)
(* be told from blanks and letters.                                        *)
(***************************************************************************)
MAX_INPUT_LENGTH == 3

\* The characters texts are made of: null, a control character (SOH), tab,
\* blank, and the letter a.
Chars == {0, 1, 9, 32, 97}

\* the characters str.split() splits at
whitespace == {9, 10, 11, 12, 13, 28, 29, 30, 31, 32}

\* str.isprintable of a character below 128
isprintable(char) == char \in 32..126

\* text[:max_length]
truncated(chars, max_length) ==
    SubSeq(chars, 1, IF max_length < Len(chars) THEN max_length ELSE Len(chars))

\* text.split(): the maximal runs of characters that are not whitespace
RECURSIVE split(_)
split(chars) ==
    IF chars = <<>> THEN <<>>
    ELSE IF Head(chars) \in whitespace THEN split(Tail(chars))
    ELSE LET stops == {k \in 1..Len(chars) : chars[k] \in whitespace}
                         \cup {Len(chars) + 1}
             stop == CHOOSE k \in stops : \A j \in stops : k <= j
         IN  << SubSeq(chars, 1, stop - 1) >>
             \o split(SubSeq(chars, stop, Len(chars)))

\* ' '.join(words)
RECURSIVE joined(_)
joined(words) ==
    IF words = <<>> THEN <<>>
    ELSE IF Len(words) = 1 THEN words[1]
    ELSE words[1] \o << 32 >> \o joined(Tail(words))

\* sanitize_input(text, max_length) on a str
sanitize_input(chars, max_length) ==
    IF chars = <<>> THEN <<>>
    ELSE LET cut == truncated(chars, max_length)
             no_null == SelectSeq(cut, LAMBDA char : char # 0)
             normalized == joined(split(no_null))
         IN  SelectSeq(normalized,
                       LAMBDA char : isprintable(char) \/ char \in {10, 9})

Texts == UNION {[1..n -> Chars] : n \in 0..MaxText}

\* The calls: with max_length given, and with its default.
SanitizeRequests ==
    {[text |-> t, max_length |-> m] : t \in Texts, m \in 0..MaxText}
    \cup {[text |-> t] : t \in Texts}

SanitizeInit ==
    /\ analyzer = DiagramThreatAnalyzer
    /\ parsed = NoCall
    /\ request \in SanitizeRequests
    /\ result = NoCall
    /\ clock = 0
    /\ earlier = NoCall
    /\ RateIdle
    /\ HandlerIdle
    /\ SessionIdle
    /\ EndpointIdle

sanitize_frame ==
    <<analyzer, parsed, request, clock, rate_vars, handler_vars, session_vars, answered>>

\* clean = sanitize_input(text, max_length)
Sanitize ==
    /\ result = NoCall
    /\ result' = [text |-> sanitize_input(request.text,
                                          get(request, "max_length", MAX_INPUT_LENGTH))]
    /\ UNCHANGED <<earlier, sanitize_frame>>

\* sanitize_input applied to what it returned
SanitizeAgain ==
    /\ result # NoCall
    /\ earlier = NoCall
    /\ earlier' = result
    /\ result' = [text |-> sanitize_input(result.text,
                                          get(request, "max_length", MAX_INPUT_LENGTH))]
    /\ UNCHANGED sanitize_frame

SanitizeNext == Sanitize \/ SanitizeAgain

SanitizeSpec == SanitizeInit /\ [][SanitizeNext]_vars

(***************************************************************************)
(* User actions that reach the completion service: the Generate / Compare  *)
(* button and the diagram button of app_main.py, and the endpoints         *)
(* create_threat_model and compare_threat_models of api.py.  A handler     *)
(* blocks in client.chat.completions.create; pc tells in which call.       *)
(***************************************************************************)
\* Python's None, among model names
None == "None"

Models == {"gpt-4o", "gpt-4"}

\* os.getenv("AZURE_OPENAI_DEPLOYMENT", "gpt-4o")
AZURE_OPENAI_DEPLOYMENT == "gpt-4o"

Kinds == {"generate_button", "diagram_button", "create_threat_model",
          "compare_threat_models"}

\* What a handler runs on.  input_safe: detect_prompt_injection finds
\* nothing; has_content: there is a description, context or image;
\* client: get_ai_client returns a client; rate_ok: the endpoint's
\* check_rate_limit calls return True.
Handlers ==
    {[kind |-> "generate_button", model |-> m, compare_enabled |-> ce,
      compare_model |-> cm, input_safe |-> safe, has_content |-> hc,
      client |-> cl, rate_ok |-> TRUE] :
        m \in Models, ce \in BOOLEAN, cm \in Models \cup {None},
        safe \in BOOLEAN, hc \in BOOLEAN, cl \in BOOLEAN}
    \cup
    {[kind |-> "diagram_button", model |-> None, compare_enabled |-> FALSE,
      compare_model |-> None, input_safe |-> safe, has_content |-> hc,
      client |-> cl, rate_ok |-> TRUE] :
        safe \in BOOLEAN, hc \in BOOLEAN, cl \in BOOLEAN}
    \cup
    {[kind |-> k, model |-> m, compare_enabled |-> FALSE,
      compare_model |-> cm, input_safe |-> safe, has_content |-> hc,
      client |-> cl, rate_ok |-> rate] :
        k \in {"create_threat_model", "compare_threat_models"},
        m \in Models \cup {None}, cm \in Models \cup {None},
        safe \in BOOLEAN, hc \in BOOLEAN, cl \in BOOLEAN, rate \in BOOLEAN}

\* The selectbox of the secondary model exists only when the checkbox is set.
PossibleHandlers ==
    {a \in Handlers :
        a.kind = "generate_button" =>
            (a.compare_enabled <=> a.compare_model # None)}

\* deployment_name = model_deployment or os.getenv(...)
deployment_name(model_deployment) ==
    IF model_deployment = None THEN AZURE_OPENAI_DEPLOYMENT ELSE model_deployment

\* the model a generate_threat_model call of the handler is made for
model_of(a, slot) == IF slot = "primary" THEN a.model ELSE a.compare_model

\* generate_threat_model up to client.chat.completions.create: "invoke" when
\* it gets there, else what it returns without invoking (None, or the
\* message asking for input, which is a non-empty string).
before_completion(a) ==
    IF ~a.input_safe THEN "None"
    ELSE IF ~a.has_content THEN "message"
    ELSE IF ~a.client THEN "None"
    ELSE "invoke"

\* Whether the handler reaches its first generate_threat_model call.
reaches_generation(a) ==
    CASE a.kind = "generate_button" -> TRUE
      [] a.kind = "diagram_button" -> a.has_content
      [] a.kind = "create_threat_model" ->
            a.rate_ok /\ a.has_content /\ a.input_safe
      [] a.kind = "compare_threat_models" ->
            /\ a.rate_ok
            /\ a.compare_model # None
            /\ a.model # a.compare_model
            /\ a.input_safe

\* the second call made whatever the checkbox and the models are
secondary_always(a) == TRUE

\* compare_enabled and secondary_model and secondary_model != primary_model
secondary_wanted(a) ==
    a.compare_enabled /\ a.compare_model # None /\ a.compare_model # a.model

\* The generate_threat_model call the handler makes after the one for slot
\* returned (truthy: it returned a non-empty text), or "done".
next_call(a, slot, truthy) ==
    IF slot # "primary" THEN "done"
    ELSE CASE a.kind = "generate_button" ->
                  IF truthy /\ secondary_wanted(a) THEN "secondary" ELSE "done"
           [] a.kind = "compare_threat_models" -> "secondary"
           [] OTHER -> "done"

\* The handler run from its call for slot up to the point where it blocks
\* in the completion service ("primary" or "secondary") or ends ("done").
RECURSIVE run_from(_, _)
run_from(a, slot) ==
    IF slot = "done" THEN "done"
    ELSE IF before_completion(a) = "invoke" THEN slot
    ELSE run_from(a, next_call(a, slot, before_completion(a) = "message"))

\* response = client.chat.completions.create(model=deployment_name, ...)
invocation(a, slot) ==
    [slot |-> slot, model |-> deployment_name(model_of(a, slot)),
     status |-> "running"]

\* the invocations made when the handler gets to position at
invoked(at, a) == IF at = "done" THEN <<>> ELSE << invocation(a, at) >>

HandlerInit ==
    /\ analyzer = DiagramThreatAnalyzer
    /\ parsed = NoCall
    /\ request = NoCall
    /\ result = NoCall
    /\ clock = 0
    /\ earlier = NoCall
    /\ RateIdle
    /\ HandlerIdle
    /\ SessionIdle
    /\ EndpointIdle

\* The user presses a button or a client calls an endpoint; the handler
\* runs until it blocks in the completion service or ends.
Begin(a) ==
    LET at == IF reaches_generation(a) THEN run_from(a, "primary") ELSE "done"
    IN  /\ pc \in {"idle", "done"}
        /\ handler' = a
        /\ pc' = at
        /\ completions' = invoked(at, a)
        /\ UNCHANGED <<diagram_vars, clock, rate_vars, session_vars, answered>>

\* The completion service answers: a text, an empty answer, or an error
\* that generate_threat_model catches.  The handler runs on.
CompletionReturns(answer) ==
    LET at == run_from(handler, next_call(handler, pc, answer = "text"))
        n == Len(completions)
    IN  /\ pc \in {"primary", "secondary"}
        /\ pc' = at
        /\ completions' =
              [completions EXCEPT ![n].status = answer] \o invoked(at, handler)
        /\ UNCHANGED <<diagram_vars, clock, rate_vars, handler, session_vars, answered>>

Answers == {"text", "empty", "raised"}

HandlerNext ==
    \/ \E a \in PossibleHandlers : Begin(a)
    \/ \E answer \in Answers : CompletionReturns(answer)

HandlerSpec == HandlerInit /\ [][HandlerNext]_vars

(***************************************************************************)
(* app_main.py: one browser session.  Streamlit runs the whole script      *)
(* again on every interaction; st.session_state and the content of the     *)
(* widgets outlive the run.  An action is one interaction with the script  *)
(* run (and the run that st.rerun() starts) it causes.  The text a         *)
(* completion returns is named by the button press and the call it         *)
(* answers.  The widgets of the sidebar and the description field are read *)
(* when a button is pressed.                                               *)
(***************************************************************************)
\* Files a user loads into the diagram uploader: two diagrams, and a text
\* that is not well-formed.
diagram_a ==
    [well_formed |-> TRUE,
     cells |-> << [id |-> "3", value |-> "Database", style |-> "shape=cylinder"] >>]

diagram_b ==
    [well_formed |-> TRUE,
     cells |-> << [id |-> "5", value |-> " OAuth User ", style |-> "shape=Actor"] >>]

UploadedDiagrams == {diagram_a, diagram_b, [well_formed |-> FALSE, cells |-> <<>>]}

\* The frameworks chosen in the sidebar selectbox.
SelectedFrameworks == {"STRIDE", "PASTA"}

\* What the user types into the architecture description field.
Architectures == {"web shop", "payroll"}

\* st.session_state.pop(k, None) for every k of keys
popped(state, keys_popped) == [k \in (DOMAIN state) \ keys_popped |-> state[k]]

\* if uploaded_diagram: st.session_state["diagram_xml"] = diagram_content
upload_handler(state, file) ==
    IF file # NoFile THEN assigned(state, "diagram_xml", file) ELSE state

\* The Analyse button: integrate_diagram_with_ai on the diagram of the
\* session and the framework of the sidebar, stored as diagram_analysis.
analyse_handler(state, framework_selected) ==
    assigned(state, "diagram_analysis",
             integrate_diagram_with_ai([diagram_xml |-> state.diagram_xml,
                                        framework |-> framework_selected]))

\* The button "Generate Threat Model from Diagram" is on the page.
generate_button_shown(state) ==
    /\ "diagram_xml" \in DOMAIN state
    /\ "diagram_analysis" \in DOMAIN state
    /\ state.diagram_analysis.success

\* _analysis.get("ai_prompt", "") of st.session_state.get("diagram_analysis", {})
stored_prompt(state) ==
    IF "diagram_analysis" \in DOMAIN state
    THEN get(state.diagram_analysis, "ai_prompt", "")
    ELSE ""

\* the text a completion returns for the call made by button press n
text_of(n, slot, model, input) ==
    [action |-> n, slot |-> slot, model |-> model, input |-> input]

\* The run that pops run_diagram_tm: generate_threat_model(_ai_prompt,
\* framework), its result stored when it is truthy.
diagram_generation(state, framework_selected, n, answer) ==
    IF stored_prompt(state) # "" /\ answer = "text"
    THEN assigned(state, "diagram_threat_model",
                  text_of(n, "primary", deployment_name(None), stored_prompt(state)))
    ELSE state

\* The Generate / Compare button: the session after the handler, given the
\* widget values w and what the two generate_threat_model calls return.
generate_handler(state, w, n, answer, answer_secondary) ==
    IF answer # "text" THEN state
    ELSE LET primary_stored ==
                 assigned(assigned(assigned(assigned(state,
                     "primary_model", w.model),
                     "current_threat_model",
                     text_of(n, "primary", w.model, w.architecture_desc)),
                     "current_architecture", w.architecture_desc),
                     "uploaded_files_info", <<>>)
         IN  IF secondary_wanted(w)
             THEN IF answer_secondary = "text"
                  THEN assigned(assigned(primary_stored,
                           "secondary_model", w.compare_model),
                           "secondary_threat_model",
                           text_of(n, "secondary", w.compare_model,
                                   w.architecture_desc))
                  ELSE primary_stored
             ELSE popped(primary_stored,
                         {"secondary_threat_model", "secondary_model"})

\* The values of the sidebar and of the description field with which the
\* button can be pressed: it is disabled without a description, and the
\* selectbox of the secondary model exists only when the checkbox is set.
Widgets ==
    {w \in [model : Models, compare_enabled : BOOLEAN,
            compare_model : Models \cup {None}, architecture_desc : Architectures] :
        w.compare_enabled <=> w.compare_model # None}

SessionInit ==
    /\ analyzer = DiagramThreatAnalyzer
    /\ parsed = NoCall
    /\ request = NoCall
    /\ result = NoCall
    /\ clock = 0
    /\ earlier = NoCall
    /\ RateIdle
    /\ HandlerIdle
    /\ SessionIdle
    /\ EndpointIdle

session_frame == <<diagram_vars, clock, rate_vars, handler_vars, answered>>

\* The user puts a file into the diagram uploader.
LoadDiagram(file) ==
    /\ uploaded_diagram' = file
    /\ session_state' = upload_handler(session_state, file)
    /\ UNCHANGED <<sent, actions, session_frame>>

\* The user takes the file out of the uploader.
RemoveDiagram ==
    /\ uploaded_diagram # NoFile
    /\ uploaded_diagram' = NoFile
    /\ UNCHANGED <<session_state, sent, actions, session_frame>>

\* The Analyse button, on the page when the session holds a diagram.
Analyse(framework_selected) ==
    /\ "diagram_xml" \in DOMAIN session_state
    /\ session_state' =
          analyse_handler(upload_handler(session_state, uploaded_diagram),
                          framework_selected)
    /\ UNCHANGED <<uploaded_diagram, sent, actions, session_frame>>

\* The button "Generate Threat Model from Diagram": it sets run_diagram_tm
\* and calls st.rerun(); the run that follows pops the flag and generates.
GenerateFromDiagram(framework_selected, answer) ==
    LET state == upload_handler(session_state, uploaded_diagram)
    IN  /\ actions < MaxActions
        /\ generate_button_shown(session_state)
        /\ actions' = actions + 1
        /\ sent' = [prompt |-> stored_prompt(state),
                    framework |-> framework_selected,
                    diagram_xml |-> state.diagram_xml]
        /\ session_state' =
              diagram_generation(state, framework_selected, actions + 1, answer)
        /\ UNCHANGED <<uploaded_diagram, session_frame>>

\* The Reset button of the diagram editor: the three keys popped, then
\* st.rerun(), in which the uploader still holds its file.
Reset ==
    /\ session_state' =
          upload_handler(popped(session_state,
                                {"diagram_xml", "diagram_analysis",
                                 "diagram_threat_model"}),
                         uploaded_diagram)
    /\ UNCHANGED <<uploaded_diagram, sent, actions, session_frame>>

\* The Generate Threat Model / Compare Models button.
Generate(w, answer, answer_secondary) ==
    /\ actions < MaxActions
    /\ actions' = actions + 1
    /\ session_state' =
          upload_handler(generate_handler(session_state, w, actions + 1,
                                          answer, answer_secondary),
                         uploaded_diagram)
    /\ UNCHANGED <<uploaded_diagram, sent, session_frame>>

\* The Clear button.
Clear ==
    /\ session_state' =
          upload_handler(popped(session_state,
                                {"current_threat_model", "uploaded_files_info",
                                 "secondary_threat_model", "primary_model",
                                 "secondary_model"}),
                         uploaded_diagram)
    /\ UNCHANGED <<uploaded_diagram, sent, actions, session_frame>>

SessionNext ==
    \/ \E file \in UploadedDiagrams : LoadDiagram(file)
    \/ RemoveDiagram
    \/ \E f \in SelectedFrameworks : Analyse(f)
    \/ \E f \in SelectedFrameworks, answer \in Answers : GenerateFromDiagram(f, answer)
    \/ Reset
    \/ \E w \in Widgets, answer, answer_secondary \in Answers :
           Generate(w, answer, answer_secondary)
    \/ Clear

SessionSpec == SessionInit /\ [][SessionNext]_vars

(***************************************************************************)
(* Properties of the parser.  Those about a reused analyzer are stated     *)
(* for ParseSpec; the others hold of every parse, and Spec reaches the     *)
(* parse of every document.                                                *)
(***************************************************************************)
Empty(self) ==
    /\ self.elements = <<>>
    /\ self.data_flows = <<>>
    /\ self.trust_boundaries = <<>>

ParsedOk == parsed # NoCall /\ parsed.ret

ids(list) == [k \in 1..Len(list) |-> list[k].id]

NoDuplicates(list) ==
    \A i, j \in 1..Len(list) : i # j => list[i] # list[j]

\* C2: when the document is not well-formed markup, parse_diagram_xml returns
\* False and elements, data_flows and trust_boundaries are all empty
\* afterwards, whatever the analyzer held before the call.
C2_FailedParseExposesNothing ==
    (parsed # NoCall /\ ~parsed.doc.well_formed)
        => (parsed.ret = FALSE /\ Empty(analyzer))

\* C4: after a successful parse on an analyzer that parsed another document
\* before, the three collections are exactly those of a new analyzer after
\* parsing the same document.
C4_ReparseIsFreshParse ==
    ParsedOk =>
        analyzer = parse_diagram_xml(DiagramThreatAnalyzer, parsed.doc).self

C4_Witness ==
    /\ ParsedOk
    /\ parsed.before.elements # <<>>
    /\ analyzer.elements = <<>>
    /\ analyzer.data_flows # <<>>

\* C5: after any successful parse no two entries of elements have the same
\* id, whatever ids the nodes of the document carry.
C5_ElementIdsUnique ==
    ParsedOk => NoDuplicates(ids(analyzer.elements))

\* A content node: it carries a non-empty id other than "0" and "1".
ContentNode(cell) ==
    "id" \in DOMAIN cell /\ cell.id # "" /\ cell.id # "0" /\ cell.id # "1"

\* the content nodes of the document carry pairwise distinct ids
DistinctNodeIds(doc) ==
    \A i, j \in 1..Len(doc.cells) :
        (i # j /\ ContentNode(doc.cells[i]) /\ ContentNode(doc.cells[j]))
            => doc.cells[i].id # doc.cells[j].id

\* C6: for a document whose node ids are pairwise distinct, the element ids
\* are pairwise distinct, the data-flow ids are pairwise distinct, and no id
\* is both an element's and a data flow's.
C6_UniqueIdsPreserved ==
    (ParsedOk /\ DistinctNodeIds(parsed.doc)) =>
        /\ NoDuplicates(ids(analyzer.elements))
        /\ NoDuplicates(ids(analyzer.data_flows))
        /\ \A i \in 1..Len(analyzer.elements), j \in 1..Len(analyzer.data_flows) :
               analyzer.elements[i].id # analyzer.data_flows[j].id

C6_Witness ==
    /\ ParsedOk
    /\ DistinctNodeIds(parsed.doc)
    /\ Len(analyzer.elements) + Len(analyzer.data_flows) >= 2
    /\ analyzer.data_flows # <<>>

\* C7: every DataFlow of a successful parse has source_id and target_id
\* different from its own id.
C7_FlowEndpointsAreNotTheFlow ==
    ParsedOk =>
        \A k \in 1..Len(analyzer.data_flows) :
            /\ analyzer.data_flows[k].source_id # analyzer.data_flows[k].id
            /\ analyzer.data_flows[k].target_id # analyzer.data_flows[k].id

EdgeNode(cell) == "edge" \in DOMAIN cell /\ cell.edge = "1"

\* the nodes whose style+label holds a trust-boundary keyword, in any case
BoundaryNodes ==
    {cell \in AllCells :
        LET text == lower(get(cell, "style", "") \o " " \o get(cell, "value", ""))
        IN  \E kw \in {"dashed", "boundary", "dotted", "perimeter"} :
                contains(text, kw)}

BoundaryText(cell) == cell \in BoundaryNodes

\* C8: the content nodes are partitioned in document order: edges into
\* data_flows (even with a trust-boundary style or label), then nodes with a
\* trust-boundary keyword into trust_boundaries, the others into elements;
\* nodes with id "0" or "1" or without id land nowhere.
C8_ParsePartitionsContentNodes ==
    ParsedOk =>
        LET cells == parsed.doc.cells
            content == SelectSeq(cells, ContentNode)
            edges == SelectSeq(content, EdgeNode)
            bounds == SelectSeq(content,
                                LAMBDA c : ~EdgeNode(c) /\ BoundaryText(c))
            others == SelectSeq(content,
                                LAMBDA c : ~EdgeNode(c) /\ ~BoundaryText(c))
        IN  /\ ids(analyzer.data_flows) = ids(edges)
            /\ ids(analyzer.elements) = ids(others)
            /\ analyzer.trust_boundaries =
                  [k \in 1..Len(bounds) |->
                      IF strip(get(bounds[k], "value", "")) # ""
                      THEN strip(get(bounds[k], "value", ""))
                      ELSE "Boundary_" \o bounds[k].id]
            /\ Len(analyzer.elements) + Len(analyzer.data_flows)
                  + Len(analyzer.trust_boundaries) = Len(content)

C8_Witness ==
    /\ ParsedOk
    /\ \E k \in 1..Len(parsed.doc.cells) :
           EdgeNode(parsed.doc.cells[k]) /\ BoundaryText(parsed.doc.cells[k])
    /\ \E k \in 1..Len(parsed.doc.cells) : ~ContentNode(parsed.doc.cells[k])
    /\ Len(analyzer.data_flows) = 1
    /\ analyzer.trust_boundaries = <<>>

Categories == {"process", "data_store", "external_entity"}

\* the nodes whose style and label hold no category keyword and no
\* technology keyword, in any case
PlainNodes ==
    {cell \in AllCells :
        LET text == lower(get(cell, "style", "") \o " " \o get(cell, "value", ""))
        IN  /\ \A g \in 1..Len(ELEMENT_PATTERNS) :
                   \A k \in 1..Len(ELEMENT_PATTERNS[g].patterns) :
                       ~contains(text, lower(ELEMENT_PATTERNS[g].patterns[k]))
            /\ \A g \in 1..Len(TECH_KEYWORDS) :
                   \A k \in 1..Len(TECH_KEYWORDS[g].keywords) :
                       ~contains(text, lower(TECH_KEYWORDS[g].keywords[k]))}

NoKeyword(cell) == cell \in PlainNodes

\* the nodes of the document that become elements, in document order
ElementNodes(doc) ==
    SelectSeq(doc.cells,
              LAMBDA c : ContentNode(c) /\ ~EdgeNode(c) /\ ~BoundaryText(c))

\* C9: every parsed element has category process, data_store or
\* external_entity, and an element whose style and label hold no recognized
\* keyword has category process and no technologies.
C9_CategoryFromClosedSet ==
    ParsedOk =>
        /\ \A k \in 1..Len(analyzer.elements) :
               analyzer.elements[k].element_type \in Categories
        /\ LET nodes == ElementNodes(parsed.doc)
           IN  \A k \in 1..Len(nodes) :
                   NoKeyword(nodes[k]) =>
                       /\ k <= Len(analyzer.elements)
                       /\ analyzer.elements[k].element_type = "process"
                       /\ analyzer.elements[k].technologies = <<>>

C9_Witness ==
    /\ ParsedOk
    /\ \E k \in 1..Len(ElementNodes(parsed.doc)) :
           NoKeyword(ElementNodes(parsed.doc)[k])
    /\ \E k \in 1..Len(analyzer.elements) :
           analyzer.elements[k].element_type = "external_entity"

\* C10: a parsed element is semi-trusted only if "cloud" is among its
\* technologies, and an external_entity element is untrusted whatever its
\* technologies.
C10_TrustLevelCoupling ==
    ParsedOk =>
        \A k \in 1..Len(analyzer.elements) :
            LET e == analyzer.elements[k]
            IN  /\ e.trust_level = "semi-trusted" => member("cloud", e.technologies)
                /\ e.element_type = "external_entity" => e.trust_level = "untrusted"

C10_Witness ==
    /\ ParsedOk
    /\ \E k \in 1..Len(analyzer.elements) :
           /\ analyzer.elements[k].element_type = "external_entity"
           /\ analyzer.elements[k].technologies # <<>>
           /\ analyzer.elements[k].trust_level = "untrusted"

(***************************************************************************)
(* Properties of integrate_diagram_with_ai (Spec).                         *)
(***************************************************************************)
starts_with(s, prefix) ==
    Len(s) >= Len(prefix) /\ SubSeq(s, 1, Len(prefix)) = prefix

\* C1: for every well-formed document, with or without content nodes, and
\* every framework, integrate_diagram_with_ai returns success=True with the
\* composed prompt in 'ai_prompt'.
C1_Totality ==
    (result # NoCall /\ request.diagram_xml.well_formed) =>
        /\ result.success = TRUE
        /\ "ai_prompt" \in DOMAIN result
        /\ starts_with(result.ai_prompt, "# System Architecture Overview\n")
        /\ starts_with(result.ai_prompt, result.system_description)

C1_Witness ==
    /\ result # NoCall
    /\ request.diagram_xml.well_formed
    /\ \A k \in 1..Len(request.diagram_xml.cells) :
           ~ContentNode(request.diagram_xml.cells[k])
    /\ Len(request.diagram_xml.cells) > 0
    /\ "framework" \in DOMAIN request
    /\ request.framework # "STRIDE"
    /\ result.success

after(s, prefix) == SubSeq(s, Len(prefix) + 1, Len(s))

\* the categories present in a hint mapping
keys(hints) == {hints[k].key : k \in 1..Len(hints)}

\* the call ran with framework STRIDE, given or by default
StrideCall ==
    /\ result # NoCall
    /\ result.success
    /\ get(request, "framework", "STRIDE") = "STRIDE"

\* C11: with framework STRIDE each category is present exactly when its own
\* rule fires: Spoofing iff an external_entity element exists, Tampering iff
\* a flow has encrypted=false, Information Disclosure iff a data_store
\* element exists, Denial of Service iff there are more than 5 flows,
\* Elevation of Privilege iff the elements have more than one trust level,
\* Repudiation never; no category is mapped to an empty list.
C11_HintRules ==
    StrideCall =>
        LET hints == result.analysis_hints
            elements == analyzer.elements
            flows == analyzer.data_flows
        IN  /\ "Spoofing" \in keys(hints) <=>
                  \E k \in 1..Len(elements) :
                      elements[k].element_type = "external_entity"
            /\ "Tampering" \in keys(hints) <=>
                  \E k \in 1..Len(flows) : flows[k].encrypted = FALSE
            /\ "Information Disclosure" \in keys(hints) <=>
                  \E k \in 1..Len(elements) :
                      elements[k].element_type = "data_store"
            /\ "Denial of Service" \in keys(hints) <=> Len(flows) > 5
            /\ "Elevation of Privilege" \in keys(hints) <=>
                  \E i, j \in 1..Len(elements) :
                      elements[i].trust_level # elements[j].trust_level
            /\ "Repudiation" \notin keys(hints)
            /\ keys(hints) \subseteq
                  {"Spoofing", "Tampering", "Information Disclosure",
                   "Denial of Service", "Elevation of Privilege"}
            /\ \A k \in 1..Len(hints) : hints[k].value # <<>>
            /\ Cardinality(keys(hints)) = Len(hints)

C11_Witness ==
    /\ StrideCall
    /\ Len(analyzer.data_flows) = 6
    /\ keys(result.analysis_hints) = {"Denial of Service"}

\* five flows, all unencrypted: Tampering alone
C11_WitnessFive ==
    /\ StrideCall
    /\ Len(analyzer.data_flows) = 5
    /\ keys(result.analysis_hints) = {"Tampering"}

\* the call ran with a framework other than "STRIDE"
OtherFrameworkCall ==
    /\ result # NoCall
    /\ result.success
    /\ "framework" \in DOMAIN request
    /\ request.framework # "STRIDE"

RiskHeading == "## Initial Risk Indicators"

\* C12: for every framework value other than exactly "STRIDE" the call
\* returns an empty analysis_hints and an ai_prompt without risk-indicators
\* section, and system_description and statistics are those of the STRIDE
\* call on the same document.
C12_FrameworkAsymmetry ==
    OtherFrameworkCall =>
        LET stride == integrate_diagram_with_ai([request EXCEPT !.framework = "STRIDE"])
        IN  /\ result.analysis_hints = <<>>
            /\ starts_with(result.ai_prompt, result.system_description)
            /\ ~contains(after(result.ai_prompt, result.system_description),
                         RiskHeading)
            /\ result.system_description = stride.system_description
            /\ result.statistics = stride.statistics

C12_Witness ==
    /\ OtherFrameworkCall
    /\ request.framework = "stride"
    /\ get_stride_analysis_hints(analyzer) # <<>>
    /\ contains(integrate_diagram_with_ai(
                    [request EXCEPT !.framework = "STRIDE"]).ai_prompt,
                RiskHeading)

\* the content nodes of the document, in document order
content_nodes(doc) == SelectSeq(doc.cells, ContentNode)

\* the edges of the document that become flows, in document order
EdgeNodes(doc) == SelectSeq(content_nodes(doc), EdgeNode)

\* The document holds a vertex "Web App" with style ellipse, a vertex
\* "Database" with a cylinder style, and one unlabeled edge from the first
\* to the second, in any order, and no other content node.
TwoNodeDiagram(doc) ==
    /\ doc.well_formed
    /\ Len(content_nodes(doc)) = 3
    /\ \E w, d, e \in 1..3 :
           LET web == content_nodes(doc)[w]
               db == content_nodes(doc)[d]
               edge == content_nodes(doc)[e]
           IN  /\ w < d
               /\ e \notin {w, d}
               /\ ~EdgeNode(web) /\ get(web, "value", "") = "Web App"
               /\ get(web, "style", "") \in {"ellipse", "ellipse;whiteSpace=wrap;html=1;"}
               /\ ~EdgeNode(db) /\ get(db, "value", "") = "Database"
               /\ get(db, "style", "")
                     \in {"cylinder", "shape=cylinder3;whiteSpace=wrap;html=1;"}
               /\ EdgeNode(edge) /\ get(edge, "value", "") = ""
               /\ get(edge, "source", "") = web.id
               /\ get(edge, "target", "") = db.id

\* the list of observations a hint mapping has for a category
observations(hints, category) ==
    LET hits == {k \in 1..Len(hints) : hints[k].key = category}
    IN  IF hits = {} THEN <<>> ELSE hints[CHOOSE k \in hits : TRUE].value

\* C13: the two-node diagram yields 2 elements of categories process and
\* data_store, 1 flow with protocol unknown and encrypted false, 0 trust
\* boundaries, and under STRIDE a Tampering observation citing 1 unencrypted
\* flow and an Information Disclosure observation citing 1 data store.
C13_TwoNodeScenario ==
    (result # NoCall /\ TwoNodeDiagram(request.diagram_xml)) =>
        /\ result.success
        /\ result.statistics = [elements |-> 2, flows |-> 1, boundaries |-> 0]
        /\ [k \in 1..2 |-> result.diagram_json.elements[k].element_type]
              = <<"process", "data_store">>
        /\ Len(result.diagram_json.data_flows) = 1
        /\ result.diagram_json.data_flows[1].protocol = "unknown"
        /\ result.diagram_json.data_flows[1].encrypted = FALSE
        /\ result.diagram_json.trust_boundaries = <<>>
        /\ get(request, "framework", "STRIDE") = "STRIDE" =>
              /\ Len(observations(result.analysis_hints, "Tampering")) = 1
              /\ starts_with(observations(result.analysis_hints, "Tampering")[1],
                             "1 unencrypted data flows detected.")
              /\ Len(observations(result.analysis_hints,
                                  "Information Disclosure")) = 1
              /\ starts_with(observations(result.analysis_hints,
                                          "Information Disclosure")[1],
                             "1 data stores found.")

C13_Witness ==
    /\ StrideCall
    /\ request.diagram_xml.cells = example_cells
    /\ keys(result.analysis_hints) = {"Tampering", "Information Disclosure"}

\* the name the prompt gives to an endpoint of a flow
endpoint_name(elements, id) ==
    IF \E k \in 1..Len(elements) : elements[k].id = id
    THEN LET k == CHOOSE k \in 1..Len(elements) :
                      /\ elements[k].id = id
                      /\ \A j \in 1..(k - 1) : elements[j].id # id
         IN  elements[k].name
    ELSE "Unknown_" \o id

\* the flow has an endpoint that is no element's id
Dangling(elements, flow) ==
    \/ \A k \in 1..Len(elements) : elements[k].id # flow.source_id
    \/ \A k \in 1..Len(elements) : elements[k].id # flow.target_id

\* C14: a flow whose source_id or target_id matches no parsed element id
\* never makes parsing or composition fail; every flow keeps the ids its
\* edge node carries (the empty string for a missing attribute), and the
\* prompt renders an endpoint without element as "Unknown_<id>".
C14_DanglingTolerated ==
    (result # NoCall /\ request.diagram_xml.well_formed) =>
        LET edges == SelectSeq(content_nodes(request.diagram_xml), EdgeNode)
            flows == analyzer.data_flows
        IN  /\ result.success
            /\ Len(flows) = Len(edges)
            /\ \A k \in 1..Len(flows) :
                   /\ flows[k].source_id = get(edges[k], "source", "")
                   /\ flows[k].target_id = get(edges[k], "target", "")
                   /\ Dangling(analyzer.elements, flows[k]) =>
                         contains(result.system_description,
                                  "\n- "
                                  \o endpoint_name(analyzer.elements, flows[k].source_id)
                                  \o " " \o ARROW \o " "
                                  \o endpoint_name(analyzer.elements, flows[k].target_id))

C14_Witness ==
    /\ result # NoCall
    /\ result.success
    /\ Len(analyzer.data_flows) = 1
    /\ analyzer.data_flows[1].source_id = "A"
    /\ analyzer.data_flows[1].target_id = "ZZZ"
    /\ Len(analyzer.elements) = 1
    /\ contains(result.system_description, "\n- A " \o ARROW \o " Unknown_ZZZ")

\* the edge carries neither source nor target
C14_WitnessNoAttribute ==
    /\ result # NoCall
    /\ result.success
    /\ Len(analyzer.data_flows) = 1
    /\ analyzer.data_flows[1].source_id = ""
    /\ contains(result.system_description,
                "\n- Unknown_ " \o ARROW \o " Unknown_: sync")

ComplianceHeading == "\n## Compliance Requirements"

\* the text of the lines "- <name>", one per name, each after a line break
RECURSIVE listed(_)
listed(names) ==
    IF names = <<>> THEN ""
    ELSE "\n- " \o Head(names) \o listed(Tail(names))

\* C15: with a non-empty compliance list the ai_prompt has one compliance
\* section listing every given name verbatim, once each and in the order
\* given, right after the system description and before the risk-indicators
\* section; with an empty or absent list it has no compliance section.
C15_CompliancePassThrough ==
    (result # NoCall /\ result.success) =>
        LET names == get(request, "compliance_requirements", <<>>)
            rest == after(result.ai_prompt, result.system_description)
            section == "\n" \o ComplianceHeading \o listed(names)
            risk == "\n\n" \o RiskHeading
        IN  /\ starts_with(result.ai_prompt, result.system_description)
            /\ IF names # <<>>
               THEN /\ starts_with(rest, section)
                    /\ IF result.analysis_hints = <<>>
                       THEN after(rest, section) = ""
                       ELSE starts_with(after(rest, section), risk)
               ELSE /\ ~starts_with(rest, "\n" \o ComplianceHeading)
                    /\ IF result.analysis_hints = <<>>
                       THEN rest = ""
                       ELSE starts_with(rest, risk)

C15_Witness ==
    /\ result # NoCall
    /\ result.success
    /\ get(request, "compliance_requirements", <<>>) = <<"Essential Eight", "GDPR">>
    /\ result.analysis_hints # <<>>
    /\ starts_with(after(result.ai_prompt, result.system_description),
                   "\n\n## Compliance Requirements\n- Essential Eight\n- GDPR\n\n## Initial")

\* a well-formed document without content node
EmptyDiagram(doc) == doc.well_formed /\ content_nodes(doc) = <<>>

\* C16: a well-formed document with no content nodes (only the layer nodes
\* "0" and "1", or no node at all) makes parse_diagram_xml return True with
\* three empty collections, and integrate_diagram_with_ai return
\* success=True with statistics 0/0/0, an empty hint mapping and a prompt
\* whose overview states 0 components and 0 data flows.
C16_EmptyDiagramSucceeds ==
    (result # NoCall /\ EmptyDiagram(request.diagram_xml)) =>
        /\ parsed.ret = TRUE
        /\ Empty(analyzer)
        /\ result.success
        /\ result.statistics = [elements |-> 0, flows |-> 0, boundaries |-> 0]
        /\ result.analysis_hints = <<>>
        /\ starts_with(result.ai_prompt,
                       "# System Architecture Overview\n"
                       \o "The system consists of 0 components \n"
                       \o "with 0 data flows between them.\n")

C16_Witness ==
    /\ result # NoCall
    /\ request.diagram_xml.cells = <<[id |-> "0"],
                                     [id |-> "1", value |-> "Layer", parent |-> "0"]>>
    /\ "framework" \notin DOMAIN request
    /\ result.success
    /\ result.statistics.elements = 0

\* no node at all
C16_WitnessNoNode ==
    /\ result # NoCall
    /\ request.diagram_xml.well_formed
    /\ request.diagram_xml.cells = <<>>
    /\ result.success

\* the names, separated by a comma and a blank
RECURSIVE enumerated(_)
enumerated(names) ==
    IF Len(names) <= 1 THEN (IF names = <<>> THEN "" ELSE names[1])
    ELSE names[1] \o ", " \o enumerated(Tail(names))

\* the names of the elements of a category, in the order of the list
RECURSIVE names_of_category(_, _)
names_of_category(elements, category) ==
    IF elements = <<>> THEN <<>>
    ELSE (IF Head(elements).element_type = category
          THEN << Head(elements).name >> ELSE <<>>)
         \o names_of_category(Tail(elements), category)

\* C22: under STRIDE every category present holds exactly one observation;
\* the Tampering observation cites the number of flows with encrypted=false,
\* the Information Disclosure observation the number of data_store elements,
\* and the Spoofing observation lists the names of exactly the
\* external_entity elements, in discovery order.
C22_HintFiguresExact ==
    StrideCall =>
        LET hints == result.analysis_hints
            elements == analyzer.elements
            flows == analyzer.data_flows
            unencrypted == Cardinality({k \in 1..Len(flows) : ~flows[k].encrypted})
            stores == Cardinality({k \in 1..Len(elements) :
                                      elements[k].element_type = "data_store"})
        IN  /\ \A k \in 1..Len(hints) : Len(hints[k].value) = 1
            /\ "Tampering" \in keys(hints) =>
                   observations(hints, "Tampering")[1]
                     = str(unencrypted) \o " unencrypted data flows detected. "
                       \o "Consider implementing encryption."
            /\ "Information Disclosure" \in keys(hints) =>
                   observations(hints, "Information Disclosure")[1]
                     = str(stores) \o " data stores found. "
                       \o "Ensure proper access controls and encryption at rest."
            /\ "Spoofing" \in keys(hints) =>
                   observations(hints, "Spoofing")[1]
                     = "External entities detected: "
                       \o enumerated(names_of_category(elements, "external_entity"))
                       \o ". Consider authentication mechanisms."

\* three external entities among other elements, two of three flows
\* unencrypted, two data stores
C22_Witness ==
    /\ StrideCall
    /\ request.diagram_xml.cells = hint_cells
    /\ observations(result.analysis_hints, "Spoofing")
          = << "External entities detected: Zoe (user), Adam (actor), Mike (external)"
               \o ". Consider authentication mechanisms." >>
    /\ starts_with(observations(result.analysis_hints, "Tampering")[1], "2 unencrypted")
    /\ starts_with(observations(result.analysis_hints, "Information Disclosure")[1],
                   "2 data stores")

\* C25: no parsed element has trust_level semi-trusted: trust_level is
\* untrusted exactly for the external_entity elements and trusted for all
\* others; and under STRIDE the Elevation of Privilege hint is present
\* exactly when the diagram has both an external_entity element and an
\* element of another category.
C25_NeverSemiTrusted ==
    /\ ParsedOk =>
           \A k \in 1..Len(analyzer.elements) :
               LET e == analyzer.elements[k]
               IN  /\ e.trust_level # "semi-trusted"
                   /\ ~member("cloud", e.technologies)
                   /\ e.trust_level = "untrusted" <=> e.element_type = "external_entity"
                   /\ e.trust_level = "trusted" <=> e.element_type # "external_entity"
    /\ StrideCall =>
           ("Elevation of Privilege" \in keys(result.analysis_hints)
              <=> /\ \E k \in 1..Len(analyzer.elements) :
                         analyzer.elements[k].element_type = "external_entity"
                  /\ \E k \in 1..Len(analyzer.elements) :
                         analyzer.elements[k].element_type # "external_entity")

\* a data store that names a cloud platform and carries technology tags is
\* trusted, and next to an external entity the hint is present
C25_Witness ==
    /\ StrideCall
    /\ Len(analyzer.elements) = 2
    /\ analyzer.elements[1].name = "Cloud Storage"
    /\ analyzer.elements[1].element_type = "data_store"
    /\ analyzer.elements[1].technologies # <<>>
    /\ analyzer.elements[1].trust_level = "trusted"
    /\ analyzer.elements[2].element_type = "external_entity"
    /\ "Elevation of Privilege" \in keys(result.analysis_hints)

\* two external entities and nothing else: no hint
C25_WitnessNoHint ==
    /\ StrideCall
    /\ Len(analyzer.elements) = 2
    /\ \A k \in 1..2 : analyzer.elements[k].trust_level = "untrusted"
    /\ "Elevation of Privilege" \notin keys(result.analysis_hints)

(***************************************************************************)
(* Properties of the composed prompt, read line by line.                   *)
(***************************************************************************)
\* The lines of a text: the function from the position at which a line
\* starts to the line.
lines_of(s) ==
    LET breaks == {i \in 1..Len(s) : SubSeq(s, i, i) = "\n"}
        ends == breaks \cup {Len(s) + 1}
        end_of(p) == CHOOSE q \in ends : q >= p /\ \A r \in ends : r >= p => q <= r
    IN  [p \in {1} \cup {i + 1 : i \in breaks} |-> SubSeq(s, p, end_of(p) - 1)]

\* the start of the first line that is the given heading, 0 without one
heading_at(lines, heading) ==
    LET hits == {p \in DOMAIN lines : lines[p] = heading}
    IN  IF hits = {} THEN 0 ELSE CHOOSE p \in hits : \A q \in hits : p <= q

\* the number of positions of the set up to p
rank(positions, p) == Cardinality({q \in positions : q <= p})

\* the names the trust-boundary nodes of a document give, in document order
BoundaryNames(doc) ==
    LET nodes == SelectSeq(content_nodes(doc),
                           LAMBDA c : ~EdgeNode(c) /\ BoundaryText(c))
    IN  [k \in 1..Len(nodes) |->
            IF strip(get(nodes[k], "value", "")) # ""
            THEN strip(get(nodes[k], "value", ""))
            ELSE "Boundary_" \o nodes[k].id]

\* C23: elements, data flows and trust boundaries are stored in document
\* order of their nodes, and the prompt lists the trust boundaries, the
\* element subsections and the data-flow lines each in that same order.
C23_DiscoveryOrder ==
    (result # NoCall /\ result.success) =>
        LET doc == request.diagram_xml
            elements == analyzer.elements
            flows == analyzer.data_flows
            boundaries == analyzer.trust_boundaries
            lines == lines_of(result.system_description)
            at_boundaries == heading_at(lines, "## Trust Boundaries")
            at_components == heading_at(lines, "## System Components")
            at_flows == heading_at(lines, "## Data Flows")
            boundary_lines == {p \in DOMAIN lines : /\ at_boundaries > 0
                                                    /\ at_boundaries < p
                                                    /\ p < at_components
                                                    /\ lines[p] # ""}
            subsections == {p \in DOMAIN lines : starts_with(lines[p], "### ")}
            flow_lines == {p \in DOMAIN lines : at_flows < p /\ lines[p] # ""}
        IN  /\ ids(elements) = ids(ElementNodes(doc))
            /\ ids(flows) = ids(EdgeNodes(doc))
            /\ boundaries = BoundaryNames(doc)
            /\ at_components > 0 /\ at_components < at_flows
            /\ Cardinality(boundary_lines) = Len(boundaries)
            /\ \A p \in boundary_lines :
                   lines[p] = "- " \o boundaries[rank(boundary_lines, p)]
            /\ Cardinality(subsections) = Len(elements)
            /\ \A p \in subsections :
                   /\ at_components < p /\ p < at_flows
                   /\ lines[p] = "### " \o elements[rank(subsections, p)].name
            /\ Cardinality(flow_lines) = Len(flows)
            /\ \A p \in flow_lines :
                   LET flow == flows[rank(flow_lines, p)]
                   IN  starts_with(lines[p],
                                   "- " \o endpoint_name(elements, flow.source_id)
                                   \o " " \o ARROW \o " "
                                   \o endpoint_name(elements, flow.target_id)
                                   \o (IF flow.label # "" THEN ": " \o flow.label
                                       ELSE ""))

\* elements, flows and boundaries stored in an order that is not the order
\* of their names nor of their ids
C23_Witness ==
    /\ result # NoCall
    /\ result.success
    /\ request.diagram_xml.cells = hint_cells
    /\ ids(analyzer.elements) = <<"n9", "n3", "n7", "n1", "n5">>
    /\ ids(analyzer.data_flows) = <<"f2", "f1", "f3">>
    /\ analyzer.trust_boundaries
          = <<"Prod boundary", "DMZ perimeter", "Admin boundary">>
    /\ contains(result.system_description,
                "- Prod boundary\n- DMZ perimeter\n- Admin boundary\n")

\* the position of the set with k positions up to it
nth(positions, k) == CHOOSE p \in positions : rank(positions, p) = k

\* f[1] + ... + f[n]
RECURSIVE sum(_, _)
sum(f, n) == IF n = 0 THEN 0 ELSE f[n] + sum(f, n - 1)

InboundPrefix == "- Inbound connections: "
OutboundPrefix == "- Outbound connections: "

\* The lines of the subsection of element k that start with the prefix:
\* the subsection runs from the k-th "### " line to the next one, or to the
\* data-flow heading.
count_lines(lines, k, prefix) ==
    LET subsections == {p \in DOMAIN lines : starts_with(lines[p], "### ")}
        from == nth(subsections, k)
        later == {p \in subsections : p > from} \cup {heading_at(lines, "## Data Flows")}
        to == CHOOSE p \in later : \A q \in later : p <= q
    IN  {lines[p] : p \in {q \in DOMAIN lines : /\ from < q
                                                 /\ q < to
                                                 /\ starts_with(lines[q], prefix)}}

\* the count those lines state: n for the one line "<prefix>n", 0 without
\* such a line
stated(count_line, prefix, max) ==
    LET hits == {n \in 0..max : count_line = {prefix \o str(n)}}
    IN  IF hits = {} THEN 0 ELSE CHOOSE n \in hits : TRUE

\* the flows that reach, and that leave, the element with the id
flows_to(flows, id) == {j \in 1..Len(flows) : flows[j].target_id = id}
flows_from(flows, id) == {j \in 1..Len(flows) : flows[j].source_id = id}

\* the counts the subsections state add up: a self-loop counts once in
\* each, and with unique element ids the inbound counts sum to the number
\* of flows whose target is a parsed element
CountsAddUp(lines, elements, flows) ==
    LET n == Len(elements)
        stated_in == [k \in 1..n |->
                         stated(count_lines(lines, k, InboundPrefix),
                                InboundPrefix, Len(flows))]
        stated_out == [k \in 1..n |->
                          stated(count_lines(lines, k, OutboundPrefix),
                                 OutboundPrefix, Len(flows))]
    IN  /\ \A k \in 1..n : \A j \in 1..Len(flows) :
               (flows[j].source_id = elements[k].id
                    /\ flows[j].target_id = elements[k].id)
                 => (stated_in[k] >= 1 /\ stated_out[k] >= 1)
        /\ NoDuplicates(ids(elements)) =>
               sum(stated_in, n)
                 = Cardinality({j \in 1..Len(flows) :
                                   \E k \in 1..n : elements[k].id = flows[j].target_id})

\* C24 as stated: the subsection of every element states its inbound and
\* its outbound connection count, inbound being the number of flows whose
\* target_id is the element's id and outbound the number whose source_id is
\* it; a self-loop counts once in each, and with unique element ids the
\* inbound counts sum to the number of flows whose target is a parsed
\* element.
C24_CountsStated ==
    (result # NoCall /\ result.success) =>
        LET lines == lines_of(result.system_description)
            elements == analyzer.elements
            flows == analyzer.data_flows
        IN  /\ \A k \in 1..Len(elements) :
                   /\ count_lines(lines, k, InboundPrefix)
                         = {InboundPrefix
                            \o str(Cardinality(flows_to(flows, elements[k].id)))}
                   /\ count_lines(lines, k, OutboundPrefix)
                         = {OutboundPrefix
                            \o str(Cardinality(flows_from(flows, elements[k].id)))}
            /\ CountsAddUp(lines, elements, flows)

\* C24, amended: the subsection of every element states its inbound count
\* when that count is not zero, and has no inbound line when it is zero;
\* likewise for the outbound count; a self-loop counts once in each, and
\* with unique element ids the stated inbound counts sum to the number of
\* flows whose target is a parsed element.
C24_NonZeroCountsStated ==
    (result # NoCall /\ result.success) =>
        LET lines == lines_of(result.system_description)
            elements == analyzer.elements
            flows == analyzer.data_flows
        IN  /\ \A k \in 1..Len(elements) :
                   LET inb == Cardinality(flows_to(flows, elements[k].id))
                       outb == Cardinality(flows_from(flows, elements[k].id))
                   IN  /\ count_lines(lines, k, InboundPrefix)
                             = IF inb = 0 THEN {} ELSE {InboundPrefix \o str(inb)}
                       /\ count_lines(lines, k, OutboundPrefix)
                             = IF outb = 0 THEN {} ELSE {OutboundPrefix \o str(outb)}
            /\ CountsAddUp(lines, elements, flows)

\* an element with a self-loop and flows both ways, and one without flow
C24_Witness ==
    /\ result # NoCall
    /\ result.success
    /\ request.diagram_xml.cells = connection_cells
    /\ contains(result.system_description,
                "### Gateway\n- Type: process\n- Trust Level: trusted\n"
                \o "- Inbound connections: 2\n- Outbound connections: 2\n")
    /\ contains(result.system_description,
                "### Printer\n- Type: process\n- Trust Level: trusted\n\n")

(***************************************************************************)
(* Properties of the classifier, stated on the parse of every document.    *)
(***************************************************************************)
\* some keyword of the set occurs in the text, letter case disregarded
holds_keyword(text, keywords) ==
    \E kw \in keywords : contains(lower(text), lower(kw))

\* The category that the first keyword group present in style+label names,
\* for every node.
keyword_category ==
    [cell \in AllCells |->
        LET text == get(cell, "style", "") \o " " \o get(cell, "value", "")
        IN  IF holds_keyword(text, {"ellipse", "process", "roundRectangle",
                                    "service", "api"})
            THEN "process"
            ELSE IF holds_keyword(text, {"cylinder", "database", "storage",
                                         "datastore"})
            THEN "data_store"
            ELSE IF holds_keyword(text, {"actor", "user", "external", "cloud",
                                         "thirdparty"})
            THEN "external_entity"
            ELSE "process"]

\* C19: the category of an element is the first matching group in the order
\* process, data_store, external_entity over the lower-cased style+label
\* text, and every keyword of every group, "roundRectangle" included,
\* selects its group when present.
C19_FirstMatchingGroup ==
    ParsedOk =>
        LET nodes == ElementNodes(parsed.doc)
        IN  /\ Len(analyzer.elements) = Len(nodes)
            /\ \A k \in 1..Len(nodes) :
                   analyzer.elements[k].element_type = keyword_category[nodes[k]]

\* The protocol that the first keyword group present in the label names,
\* for every node.
label_protocol ==
    [cell \in AllCells |->
        LET label == get(cell, "value", "")
        IN  IF holds_keyword(label, {"https", "tls", "ssl"}) THEN "https"
            ELSE IF holds_keyword(label, {"http"}) THEN "http"
            ELSE IF holds_keyword(label, {"grpc"}) THEN "grpc"
            ELSE IF holds_keyword(label, {"sql"}) THEN "sql"
            ELSE IF holds_keyword(label, {"nosql"}) THEN "nosql"
            ELSE IF holds_keyword(label, {"mq", "kafka", "rabbitmq", "queue"})
            THEN "message_queue"
            ELSE "unknown"]

\* C20: the protocol of a flow is the first group, in the order https, http,
\* grpc, sql, nosql, message_queue, with a keyword occurring in the
\* lower-cased edge label, and unknown when no group matches.
C20_FirstMatchingProtocol ==
    ParsedOk =>
        LET edges == SelectSeq(content_nodes(parsed.doc), EdgeNode)
        IN  /\ Len(analyzer.data_flows) = Len(edges)
            /\ \A k \in 1..Len(edges) :
                   /\ analyzer.data_flows[k].protocol = label_protocol[edges[k]]
                   /\ get(edges[k], "value", "") = "" =>
                         analyzer.data_flows[k].protocol = "unknown"

C20_Witness ==
    /\ ParsedOk
    /\ Len(analyzer.data_flows) = 1
    /\ analyzer.data_flows[1].label = "Kafka over TLS"
    /\ analyzer.data_flows[1].protocol = "https"

\* a label naming nosql holds the keyword of the sql group, which comes first
C20_WitnessNoSql ==
    /\ ParsedOk
    /\ Len(analyzer.data_flows) = 1
    /\ analyzer.data_flows[1].label = "NoSQL query"
    /\ analyzer.data_flows[1].protocol = "sql"

\* The nodes whose label holds one of the five encryption words, letter
\* case disregarded.
EncryptedLabelNodes ==
    {cell \in AllCells :
        holds_keyword(get(cell, "value", ""),
                      {"https", "tls", "ssl", "encrypted", "secure"})}

\* C21: a flow's encrypted flag is true iff its label contains,
\* case-insensitively and as a substring, one of https, tls, ssl, encrypted,
\* secure; two flows with the same label have the same flag whatever their
\* style, endpoints and protocol.
C21_EncryptedFromLabelOnly ==
    ParsedOk =>
        LET edges == EdgeNodes(parsed.doc)
            flows == analyzer.data_flows
        IN  /\ Len(flows) = Len(edges)
            /\ \A k \in 1..Len(edges) :
                   flows[k].encrypted <=> edges[k] \in EncryptedLabelNodes
            /\ \A i, j \in 1..Len(flows) :
                   flows[i].label = flows[j].label =>
                       flows[i].encrypted = flows[j].encrypted

\* a flow encrypted by the word "secure", with protocol http and a
\* trust-boundary style
C21_Witness ==
    /\ ParsedOk
    /\ Len(analyzer.data_flows) = 1
    /\ analyzer.data_flows[1].label = "Secure HTTP"
    /\ analyzer.data_flows[1].protocol = "http"
    /\ analyzer.data_flows[1].target_id = "tls"
    /\ analyzer.data_flows[1].encrypted = TRUE

\* encryption words in the style and the endpoints only: not encrypted
C21_WitnessStyleOnly ==
    /\ ParsedOk
    /\ Len(analyzer.data_flows) = 1
    /\ analyzer.data_flows[1].label = "data"
    /\ analyzer.data_flows[1].source_id = "https"
    /\ analyzer.data_flows[1].encrypted = FALSE

ReachableProtocols == {"https", "http", "grpc", "sql", "message_queue", "unknown"}

\* C26: no flow is ever assigned protocol nosql: a flow whose label contains
\* "nosql" gets sql or the tag of a group before sql, and every flow's
\* protocol is one of https, http, grpc, sql, message_queue, unknown.
C26_NoSqlUnreachable ==
    ParsedOk =>
        \A k \in 1..Len(analyzer.data_flows) :
            LET flow == analyzer.data_flows[k]
            IN  /\ flow.protocol # "nosql"
                /\ flow.protocol \in ReachableProtocols
                /\ contains(lower(flow.label), "nosql") =>
                       /\ contains(lower(flow.label), "sql")
                       /\ flow.protocol \in {"https", "http", "grpc", "sql"}

\* every one of the six values is assigned, and the labels that name NoSQL
\* get sql, or grpc when they name gRPC too
C26_Witness ==
    /\ ParsedOk
    /\ parsed.doc.cells = protocol_cells
    /\ {analyzer.data_flows[k].protocol : k \in 1..Len(analyzer.data_flows)}
          = ReachableProtocols
    /\ \E k \in 1..Len(analyzer.data_flows) :
           /\ analyzer.data_flows[k].label = "NOSQL queue"
           /\ analyzer.data_flows[k].protocol = "sql"
    /\ \E k \in 1..Len(analyzer.data_flows) :
           /\ analyzer.data_flows[k].label = "NoSQL via gRPC"
           /\ analyzer.data_flows[k].protocol = "grpc"

(***************************************************************************)
(* Properties of the rate limiter (RateSpec).                              *)
(***************************************************************************)
\* the accepted calls of a key made at a time in [from, to]
accepted_between(api_key, from, to) ==
    {j \in 1..Len(rate_calls) :
        /\ rate_calls[j].api_key = api_key
        /\ rate_calls[j].ret
        /\ from <= rate_calls[j].now
        /\ rate_calls[j].now <= to}

\* the accepted calls of the key of call n made before it and younger than
\* the window when it is made
young_accepted_before(n) ==
    {j \in 1..(n - 1) :
        /\ rate_calls[j].api_key = rate_calls[n].api_key
        /\ rate_calls[j].ret
        /\ rate_calls[n].now - rate_calls[j].now < RATE_LIMIT_WINDOW}

\* the calls made for a key
calls_of(api_key) ==
    {j \in 1..Len(rate_calls) : rate_calls[j].api_key = api_key}

\* C18: for every key, the calls that return True within any interval
\* shorter than RATE_LIMIT_WINDOW number at most RATE_LIMIT_REQUESTS; a call
\* returns False exactly when RATE_LIMIT_REQUESTS accepted calls of its key
\* are younger than the window; and the record of a key is a function of
\* the calls made for that key alone.
C18_RateLimit ==
    /\ \A api_key \in ApiKeys : \A from, to \in 0..clock :
           (from <= to /\ to - from < RATE_LIMIT_WINDOW) =>
               Cardinality(accepted_between(api_key, from, to))
                   <= RATE_LIMIT_REQUESTS
    /\ \A n \in 1..Len(rate_calls) :
           (rate_calls[n].ret = FALSE) <=>
               (Cardinality(young_accepted_before(n)) = RATE_LIMIT_REQUESTS)
    /\ \A api_key \in ApiKeys :
           IF calls_of(api_key) = {}
           THEN api_key \notin DOMAIN rate_limit_store
           ELSE LET last == CHOOSE n \in calls_of(api_key) :
                                \A j \in calls_of(api_key) : j <= n
                    kept == {j \in calls_of(api_key) :
                                /\ rate_calls[j].ret
                                /\ rate_calls[last].now - rate_calls[j].now
                                      < RATE_LIMIT_WINDOW}
                IN  /\ api_key \in DOMAIN rate_limit_store
                    /\ Len(rate_limit_store[api_key]) = Cardinality(kept)
                    /\ \A t \in 0..clock :
                           Cardinality({k \in 1..Len(rate_limit_store[api_key]) :
                                           rate_limit_store[api_key][k] = t})
                             = Cardinality({j \in kept : rate_calls[j].now = t})

\* A key used up its window, was refused, and was accepted again once its
\* first request had left the window, while the other key was served.
C18_Witness ==
    /\ \E i, j \in 1..Len(rate_calls) :
           /\ i < j
           /\ rate_calls[i].api_key = rate_calls[j].api_key
           /\ rate_calls[i].ret = FALSE
           /\ rate_calls[j].ret = TRUE
    /\ \A api_key \in ApiKeys : accepted_between(api_key, 0, clock) # {}

(***************************************************************************)
(* Properties of the user actions (HandlerSpec).                           *)
(***************************************************************************)
\* the action is a comparison: the Compare Models button, or the endpoint
Comparison(a) ==
    \/ a.kind = "compare_threat_models"
    \/ a.kind = "generate_button" /\ a.compare_enabled /\ a.compare_model # None

\* C17: per user action the completion service is invoked at most once, or
\* at most twice for a comparison; the second invocation starts only after
\* the first has returned; and after a failed invocation the same call is
\* not made again.
C17_CompletionsPerAction ==
    (pc # "idle") =>
        /\ Len(completions) <= (IF Comparison(handler) THEN 2 ELSE 1)
        /\ \A k \in 1..(Len(completions) - 1) : completions[k].status # "running"
        /\ \A i, j \in 1..Len(completions) :
               (i < j /\ completions[i].status # "text") =>
                   completions[j].slot # completions[i].slot
        /\ (pc = "done") =>
               \A k \in 1..Len(completions) : completions[k].status # "running"

\* a comparison whose first invocation failed and whose second is running
C17_Witness ==
    /\ pc = "secondary"
    /\ handler.kind = "compare_threat_models"
    /\ Len(completions) = 2
    /\ completions[1].status = "raised"
    /\ completions[2].status = "running"

\* the Compare Models button: two invocations, both answered
C17_WitnessButton ==
    /\ pc = "done"
    /\ handler.kind = "generate_button"
    /\ Len(completions) = 2
    /\ completions[1].status = "text"
    /\ completions[2].status = "empty"

(***************************************************************************)
(* Properties of a browser session (SessionSpec).                          *)
(***************************************************************************)
\* C27: whenever a threat model is generated from a diagram, the prompt sent
\* is the one composed from the diagram the session holds and the framework
\* selected at that moment, after any sequence of Load, Analyse, framework
\* change, Generate and Reset.
C27_PromptOfCurrentDiagram ==
    (sent # NoCall) =>
        LET current == integrate_diagram_with_ai([diagram_xml |-> sent.diagram_xml,
                                                  framework |-> sent.framework])
        IN  /\ current.success
            /\ sent.prompt = current.ai_prompt

\* C28: whenever the session holds both current_threat_model and
\* secondary_threat_model, both were produced by the same button press from
\* the same input, also when completions of earlier or later presses fail.
C28_PairFromOneAction ==
    ({"current_threat_model", "secondary_threat_model"} \subseteq DOMAIN session_state)
        => /\ session_state.current_threat_model.action
                = session_state.secondary_threat_model.action
           /\ session_state.current_threat_model.input
                = session_state.secondary_threat_model.input

(***************************************************************************)
(* Properties of the endpoints (EndpointSpec).                             *)
(***************************************************************************)
\* how often a timestamp occurs in a list
occurrences(timestamps, t) ==
    Cardinality({k \in 1..Len(timestamps) : timestamps[k] = t})

\* C29: after an endpoint (single generation, upload or comparison) answers
\* 429, the caller's rate_limit_store entry holds no timestamp that was not
\* there before the request; only expired timestamps may be gone.
C29_RejectedConsumesNothing ==
    (answered # NoCall /\ answered.status = "429") =>
        LET now == stored(rate_limit_store, answered.api_key)
        IN  /\ \A t \in 0..MaxTime :
                   occurrences(now, t) <= occurrences(answered.before, t)
            /\ \A k \in 1..Len(answered.before) :
                   young(clock, answered.before[k]) =>
                       occurrences(now, answered.before[k])
                         = occurrences(answered.before, answered.before[k])

(***************************************************************************)
(* Properties of sanitize_input (SanitizeSpec).                            *)
(***************************************************************************)
\* C30: sanitize_input applied to its own output returns that output, and
\* the output has length at most max_length, contains no null or other
\* control character, and has no leading, trailing or consecutive
\* whitespace.
C30_SanitizeIdempotentNormalized ==
    (result # NoCall) =>
        LET out == result.text
        IN  /\ Len(out) <= get(request, "max_length", MAX_INPUT_LENGTH)
            /\ \A k \in 1..Len(out) : out[k] \in 32..126
            /\ out # <<>> => (out[1] \notin whitespace /\ out[Len(out)] \notin whitespace)
            /\ \A k \in 1..(Len(out) - 1) :
                   ~(out[k] \in whitespace /\ out[k + 1] \in whitespace)
            /\ earlier # NoCall => result = earlier

====
